---------------------------- MODULE Spec2Model ----------------------------
(***************************************************************************)
(* State-machine model of src/bot.py: the mute lifecycle (role snapshot,   *)
(* sentinel role, timed expiry sweep), the ticket lifecycle (channel topic *)
(* as sidecar) and the market-listing lifecycle (embed footer as sidecar). *)
(*                                                                         *)
(* Conventions.  Text is a sequence of one-character strings, so that      *)
(* split / strip / isdigit / substring tests are computed as the code      *)
(* computes them.  A handler is cut at its awaits of remote calls: each    *)
(* action is the synchronous stretch of code that runs when the awaited    *)
(* call completes (the call's effect on the platform included), up to the  *)
(* next await.  sqlite calls are blocking and belong to the stretch they   *)
(* appear in.  member.roles is read as the platform's current grant set.   *)
(* A batched add_roles/remove_roles call succeeds or fails as a whole.     *)
(***************************************************************************)
EXTENDS Integers, Sequences, FiniteSets, TLC

\* ------------------------------------------------------------- bounds
\* The clock runs from 0 to MaxTime (minutes).
MaxTime == 1

\* ------------------------------------------------------------- text
Digits == <<"0", "1", "2", "3", "4", "5", "6", "7", "8", "9">>

DigitSet == {Digits[i] : i \in 1..10}

\* str(n) for a natural number n
RECURSIVE Str(_)
Str(n) == IF n < 10 THEN <<Digits[n + 1]>>
          ELSE Str(n \div 10) \o <<Digits[(n % 10) + 1]>>

\* str.isdigit(): non-empty and digits only
isdigit(s) == s # <<>> /\ \A i \in 1..Len(s) : s[i] \in DigitSet

DigitVal(c) == CHOOSE d \in 0..9 : Digits[d + 1] = c

\* int(s) for a digit string s
RECURSIVE ParseInt(_)
ParseInt(s) == IF Len(s) = 1 THEN DigitVal(s[1])
               ELSE 10 * ParseInt(SubSeq(s, 1, Len(s) - 1)) + DigitVal(s[Len(s)])

\* s.split(c) for a one-character separator c
Split(s, c) ==
    LET seps == {i \in 1..Len(s) : s[i] = c}
        n == Cardinality(seps)
        pos(k) == CHOOSE i \in seps : Cardinality({j \in seps : j < i}) = k - 1
        first(k) == IF k = 1 THEN 1 ELSE pos(k - 1) + 1
        last(k) == IF k = n + 1 THEN Len(s) ELSE pos(k) - 1
    IN  [k \in 1..(n + 1) |-> SubSeq(s, first(k), last(k))]

RECURSIVE LStrip(_)
LStrip(s) == IF s # <<>> /\ Head(s) = " " THEN LStrip(Tail(s)) ELSE s

RECURSIVE RStrip(_)
RStrip(s) == IF s # <<>> /\ s[Len(s)] = " " THEN RStrip(SubSeq(s, 1, Len(s) - 1)) ELSE s

\* s.strip()
Strip(s) == RStrip(LStrip(s))

\* sep.join(parts)
RECURSIVE Join(_, _)
Join(parts, sep) ==
    IF parts = <<>> THEN <<>>
    ELSE IF Len(parts) = 1 THEN parts[1]
    ELSE parts[1] \o sep \o Join(Tail(parts), sep)

\* needle in hay (substring test)
Contains(hay, needle) ==
    \E i \in 1..(Len(hay) - Len(needle) + 1) :
        SubSeq(hay, i, i + Len(needle) - 1) = needle

\* s.startswith(prefix)
StartsWith(s, prefix) ==
    Len(s) >= Len(prefix) /\ SubSeq(s, 1, Len(prefix)) = prefix

\* ------------------------------------------------------------- roles
\* Role ids; a role's position in the hierarchy is its id.
DefaultRole == 0
RoleA == 1
RoleB == 2
MutedRole == 3
RoleC == 5
\* Position of the bot's highest role (guild.me.top_role).
BotTopPosition == 4

GrantRoles == {RoleA, RoleB, RoleC}
AllRoles == GrantRoles \cup {DefaultRole, MutedRole}

Position(r) == r

is_default(r) == r = DefaultRole

can_bot_manage_role(r) == ~is_default(r) /\ BotTopPosition > Position(r)

\* member.roles: the grants in hierarchy order (lowest first)
RECURSIVE SortedRoles(_)
SortedRoles(S) ==
    IF S = {} THEN <<>>
    ELSE LET lo == CHOOSE r \in S : \A q \in S : Position(r) <= Position(q)
         IN  <<lo>> \o SortedRoles(S \ {lo})

SeqRange(s) == {s[i] : i \in 1..Len(s)}

\* ------------------------------------------------------------- durable store
\* unmute_at of an indefinite mute (SQL NULL)
NULL == <<"NULL">>

_serialize_role_ids(role_ids) ==
    Join([i \in 1..Len(role_ids) |-> Str(role_ids[i])], <<",">>)

\* faulty variant: the ids are split on ";" although they were joined with ","
DeserializeWrongSeparator(s) ==
    LET parts == Split(s, ";")
        stripped == [i \in 1..Len(parts) |-> Strip(parts[i])]
        kept == SelectSeq(stripped, isdigit)
    IN  [i \in 1..Len(kept) |-> ParseInt(kept[i])]

_deserialize_role_ids(s) ==
    LET parts == Split(s, ",")
        stripped == [i \in 1..Len(parts) |-> Strip(parts[i])]
        kept == SelectSeq(stripped, isdigit)
    IN  [i \in 1..Len(kept) |-> ParseInt(kept[i])]

\* INSERT OR REPLACE INTO mute_role_backup
save_mute_roles_backup(table, user_id, role_ids) ==
    {r \in table : r.user_id # user_id}
        \cup {[user_id |-> user_id, role_ids |-> _serialize_role_ids(role_ids)]}

\* faulty variant: the row is read and left in the table
PeekMuteRolesBackup(table, user_id) ==
    LET rows == {r \in table : r.user_id = user_id}
    IN  [role_ids |-> IF rows = {} THEN <<>>
                      ELSE _deserialize_role_ids((CHOOSE r \in rows : TRUE).role_ids),
         table |-> table]

\* SELECT role_ids, then DELETE the row: the ids read and the table left
pop_mute_roles_backup(table, user_id) ==
    LET rows == {r \in table : r.user_id = user_id}
    IN  [role_ids |-> IF rows = {} THEN <<>>
                      ELSE _deserialize_role_ids((CHOOSE r \in rows : TRUE).role_ids),
         table |-> table \ rows]

\* datetime.isoformat() of clock value t
isoformat(t) == <<"T">> \o Str(t)

\* datetime.fromisoformat(s): ok = FALSE where the code's try raises
fromisoformat(s) ==
    IF s # <<>> /\ Head(s) = "T" /\ isdigit(Tail(s))
    THEN [ok |-> TRUE, t |-> ParseInt(Tail(s))]
    ELSE [ok |-> FALSE, t |-> 0]

\* INSERT OR REPLACE INTO mutes
UpsertMute(table, user_id, unmute_at) ==
    {r \in table : r.user_id # user_id}
        \cup {[user_id |-> user_id, unmute_at |-> unmute_at]}

\* DELETE FROM mutes WHERE user_id = ?
DeleteMute(table, user_id) == {r \in table : r.user_id # user_id}

\* ------------------------------------------------------------- state
Members == {1, 12}
Handlers == {1, 2}
CallResults == {"ok", "forbidden", "error"}
\* minuten as entered: left out (None), zero, or one minute
NoMinutes == -1
MinutesInputs == {NoMinutes, 0, 1}

VARIABLES
    serial,           \* TRUE: requests and sweeps run one at a time
    now,              \* now_utc(), in minutes
    guildPresent,     \* bot.get_guild(guild_id) resolves
    memberPresent,    \* guild.get_member(user_id) resolves
    mutedRoleExists,  \* a role named "Muted" exists in guild.roles
    roles,            \* member.roles, per member
    backup,           \* table mute_role_backup
    mutes,            \* table mutes
    cmd,              \* the /mute and /unmute invocations in flight, per handler
    reply,            \* the last answer a /mute or /unmute invocation gave
    loop,             \* auto_unmute_loop's position and locals
    hist,             \* history: per member, the last completed mute/unmute
    channels,         \* category.text_channels of the ticket category, in order
    nextChannelId,    \* the id the platform gives the next channel it creates
    tcmd,             \* the ticket interactions in flight, per handler
    treply,           \* what the ticket step just taken answered, if anything
    listing,          \* the listing message: status field, footer, buttons
    lcmd,             \* the listing interactions in flight, per handler
    lreply,           \* the last answer a listing interaction gave
    codec,            \* a round trip through the text codecs: input, result
    env,              \* the environment settings on_message reads
    message           \* the message on_message is handling, and what became of it

muteVars == <<serial, now, guildPresent, memberPresent, mutedRoleExists,
              roles, backup, mutes, cmd, reply, loop, hist>>

ticketVars == <<channels, nextChannelId, tcmd, treply>>

listingVars == <<listing, lcmd, lreply>>

codecVars == <<codec, env, message>>

vars == <<muteVars, ticketVars, codecVars, listingVars, codecVars>>

\* what the mute system leaves alone
notMute == <<ticketVars, listingVars, codecVars>>

IdleCmd ==
    [pc |-> "idle", user |-> 0, minuten |-> NoMinutes, pre |-> {},
     to_remove |-> {}, to_add |-> {}, clean |-> FALSE]

Reply(op, m, outcome) == [op |-> op, user |-> m, outcome |-> outcome]

NoReply == Reply("none", 0, "none")

IdleLoop == [pc |-> "idle", rows |-> <<>>, now |-> 0, to_add |-> {}]

NoHist == [tag |-> "none", orig |-> {}]

AllIdle == (\A p \in Handlers : cmd[p].pc = "idle") /\ loop.pc \in {"idle", "stopped"}

\* the three stores an operation reads and writes
World == [roles |-> roles, backup |-> backup, mutes |-> mutes]

\* what a remote call on member m can answer: a member who left cannot be edited
Answers(m) == IF memberPresent[m] /\ guildPresent THEN CallResults ELSE {"error"}

\* the restorable subset of a popped snapshot (unmute, lines 1452-1463)
Restorable(role_ids) ==
    {rid \in SeqRange(role_ids) :
        rid \in AllRoles /\ ~is_default(rid) /\ can_bot_manage_role(rid)}

\* ------------------------------------------------------------- mute, step by step
\* faulty variant: the grants are partitioned but the snapshot is not saved
MuteSnapshotUnsaved(w, m) ==
    LET kept == {r \in w.roles[m] : ~is_default(r) /\ r # MutedRole}
    IN  [w |-> w, pre |-> kept, to_remove |-> {r \in kept : can_bot_manage_role(r)}]

\* mute, lines 1341-1358: enumerate the grants, partition them, save the snapshot
MuteSnapshot(w, m) ==
    LET kept == {r \in w.roles[m] : ~is_default(r) /\ r # MutedRole}
        backup_role_ids == SortedRoles(kept)
    IN  [w |-> [w EXCEPT !.backup = save_mute_roles_backup(w.backup, m, backup_role_ids)],
         pre |-> kept,
         to_remove |-> {r \in kept : can_bot_manage_role(r)}]

\* mute, lines 1360-1366: the batched revoke; Forbidden is swallowed
MuteRevoke(w, m, to_remove, res) ==
    IF res = "ok" THEN [w EXCEPT !.roles[m] = @ \ to_remove] ELSE w

\* mute, lines 1374-1377: the expiry written for a duration entered at time t
ComputeUnmuteAt(minuten, t) ==
    IF minuten # NoMinutes /\ minuten > 0 THEN isoformat(t + minuten) ELSE NULL

\* faulty variant: the Mute Record is written before the grant is tried
MuteGrantRecordFirst(w, m, minuten, t, res) ==
    LET w2 == [w EXCEPT !.mutes = UpsertMute(w.mutes, m, ComputeUnmuteAt(minuten, t))]
    IN  IF res = "ok" THEN [w2 EXCEPT !.roles[m] = @ \cup {MutedRole}] ELSE w2

\* mute, lines 1368-1387: grant the sentinel, then upsert the Mute Record
MuteGrant(w, m, minuten, t, res) ==
    IF res = "ok"
    THEN [w EXCEPT !.roles[m] = @ \cup {MutedRole},
                   !.mutes = UpsertMute(w.mutes, m, ComputeUnmuteAt(minuten, t))]
    ELSE w

\* faulty variant: the idempotency guard is left out
NeverAlreadyMuted(w, m) == FALSE

\* mute, line 1337: the idempotency guard
AlreadyMuted(w, m) == MutedRole \in w.roles[m]

\* ------------------------------------------------------------- unmute, step by step
\* faulty variant: the not-muted guard only checks that the role exists
HoldsSentinelUnchecked(w, m) == mutedRoleExists

\* unmute, lines 1437-1438: the member holds the sentinel
HoldsSentinel(w, m) == mutedRoleExists /\ MutedRole \in w.roles[m]

\* unmute, lines 1441-1463 and 1475-1480: the sentinel revoke has answered
UnmuteRevoke(w, m, res) ==
    IF res # "ok"
    THEN [w |-> w, next |-> IF res = "forbidden" THEN "forbidden" ELSE "crashed",
          to_add |-> {}]
    ELSE LET popped == pop_mute_roles_backup(w.backup, m)
             to_add == Restorable(popped.role_ids)
             w1 == [w EXCEPT !.roles[m] = @ \ {MutedRole}, !.backup = popped.table]
         IN  IF to_add = {}
             THEN [w |-> [w1 EXCEPT !.mutes = DeleteMute(w1.mutes, m)],
                   next |-> "done", to_add |-> {}]
             ELSE [w |-> w1, next |-> "add", to_add |-> to_add]

\* unmute, lines 1467-1480: the batched re-grant has answered
UnmuteAdd(w, m, to_add, res) ==
    IF res = "error"
    THEN [w |-> w, next |-> "crashed"]
    ELSE [w |-> [w EXCEPT !.roles[m] = IF res = "ok" THEN @ \cup to_add ELSE @,
                          !.mutes = DeleteMute(w.mutes, m)],
          next |-> "done"]

\* /unmute run to its end from w, the revoke answering rr and the re-grant ra
ManualUnmuteRun(w, m, rr, ra) ==
    IF ~HoldsSentinel(w, m) THEN w
    ELSE LET e == UnmuteRevoke(w, m, rr)
         IN  IF e.next = "add" THEN UnmuteAdd(e.w, m, e.to_add, ra).w ELSE e.w

\* ------------------------------------------------------------- expiry loop, step by step
\* auto_unmute_loop, lines 1749-1784: the sentinel revoke has answered
AutoRevoke(w, m, res) ==
    IF res # "ok"
    THEN [w |-> [w EXCEPT !.mutes = DeleteMute(w.mutes, m)], next |-> "skip",
          to_add |-> {}]
    ELSE LET popped == pop_mute_roles_backup(w.backup, m)
             to_add == Restorable(popped.role_ids)
             w1 == [w EXCEPT !.roles[m] = @ \ {MutedRole}, !.backup = popped.table]
         IN  IF to_add = {}
             THEN [w |-> [w1 EXCEPT !.mutes = DeleteMute(w1.mutes, m)],
                   next |-> "log", to_add |-> {}]
             ELSE [w |-> w1, next |-> "add", to_add |-> to_add]

\* auto_unmute_loop, lines 1771-1784: the batched re-grant has answered
AutoAdd(w, m, to_add, res) ==
    [w |-> [w EXCEPT !.roles[m] = IF res = "ok" THEN @ \cup to_add ELSE @,
                     !.mutes = DeleteMute(w.mutes, m)],
     next |-> "log"]

\* auto_unmute_loop, line 1748: the row's member is resolvable and holds the sentinel
RowNeedsRevoke(w, m) ==
    memberPresent[m] /\ mutedRoleExists /\ MutedRole \in w.roles[m]

\* the loop body for one expired row of member m, run to its end from w
AutoUnmuteRun(w, m, rr, ra) ==
    IF ~RowNeedsRevoke(w, m) THEN [w EXCEPT !.mutes = DeleteMute(w.mutes, m)]
    ELSE LET e == AutoRevoke(w, m, rr)
         IN  IF e.next = "add" THEN AutoAdd(e.w, m, e.to_add, ra).w ELSE e.w

\* auto_unmute_loop, lines 1730-1784: run over the rows left until one awaits its
\* revoke call; a row that needs no remote call is settled on the way
RECURSIVE LoopAdvance(_, _, _)
LoopAdvance(table, rows, t) ==
    IF rows = <<>> THEN [mutes |-> table, rows |-> <<>>, pc |-> "idle"]
    ELSE LET r == Head(rows)
             unmute_time == fromisoformat(r.unmute_at)
         IN  IF ~unmute_time.ok THEN LoopAdvance(table, Tail(rows), t)
             ELSE IF ~(t >= unmute_time.t) THEN LoopAdvance(table, Tail(rows), t)
             ELSE IF ~guildPresent THEN LoopAdvance(table, Tail(rows), t)
             ELSE IF RowNeedsRevoke([roles |-> roles], r.user_id)
                  THEN [mutes |-> table, rows |-> rows, pc |-> "l_revoke"]
             ELSE LoopAdvance(DeleteMute(table, r.user_id), Tail(rows), t)

\* the orders in which fetchall() may return a set of rows
Perms(S) ==
    {f \in [1..Cardinality(S) -> S] : \A i, j \in 1..Cardinality(S) : f[i] = f[j] => i = j}

\* ------------------------------------------------------------- actions: /mute
\* history is kept for sequential runs only
Clean(tag, orig) == IF serial THEN [tag |-> tag, orig |-> orig] ELSE NoHist

\* the history after a step of an unmute: `from` is the tag the step expects,
\* `to` the tag it leaves when every call so far succeeded
UnmutedHist(m, ok, from, to) ==
    IF ok /\ hist[m].tag = from THEN Clean(to, hist[m].orig) ELSE NoHist

\* handler p can take a request on member m; concurrent requests are modelled
\* for one member (member 1), sequential ones for every member
CanBegin(p, m) ==
    /\ cmd[p].pc = "idle"
    /\ guildPresent /\ memberPresent[m]
    /\ serial => (AllIdle /\ p = 1)
    /\ ~serial => m = 1

\* /mute up to its first role call: setup, idempotency guard, snapshot
MuteBegin(p, m, minuten, setup_ok) ==
    /\ UNCHANGED notMute
    /\ CanBegin(p, m)
    /\ mutedRoleExists' = TRUE
    /\ UNCHANGED <<serial, now, guildPresent, memberPresent, roles, mutes, loop>>
    /\ IF ~setup_ok
       THEN /\ reply' = Reply("mute", m, "setup_error")
            /\ UNCHANGED <<backup, cmd, hist>>
       ELSE IF AlreadyMuted(World, m)
       THEN /\ reply' = Reply("mute", m, "already_muted")
            /\ UNCHANGED <<backup, cmd, hist>>
       ELSE LET s == MuteSnapshot(World, m)
            IN  /\ backup' = s.w.backup
                /\ hist' = [hist EXCEPT ![m] = NoHist]
                /\ cmd' = [cmd EXCEPT ![p] =
                       [pc |-> IF s.to_remove = {} THEN "m_grant" ELSE "m_revoke",
                        user |-> m, minuten |-> minuten, pre |-> s.pre,
                        to_remove |-> s.to_remove, to_add |-> {}, clean |-> TRUE]]
                /\ UNCHANGED reply

\* user.remove_roles(*roles_to_remove) has answered
MuteRevokeDone(p, res) ==
    /\ UNCHANGED notMute
    /\ cmd[p].pc = "m_revoke"
    /\ res \in Answers(cmd[p].user)
    /\ UNCHANGED <<serial, now, guildPresent, memberPresent, mutedRoleExists,
                   backup, mutes, loop, hist>>
    /\ IF res = "error"
       THEN /\ cmd' = [cmd EXCEPT ![p] = IdleCmd]
            /\ reply' = Reply("mute", cmd[p].user, "crashed")
            /\ UNCHANGED roles
       ELSE /\ roles' = MuteRevoke(World, cmd[p].user, cmd[p].to_remove, res).roles
            /\ cmd' = [cmd EXCEPT ![p].pc = "m_grant", ![p].clean = (res = "ok")]
            /\ UNCHANGED reply

\* user.add_roles(muted_role) has answered; on success the Mute Record is written
MuteGrantDone(p, res) ==
    /\ UNCHANGED notMute
    /\ cmd[p].pc = "m_grant"
    /\ res \in Answers(cmd[p].user)
    /\ UNCHANGED <<serial, now, guildPresent, memberPresent, mutedRoleExists,
                   backup, loop>>
    /\ LET m == cmd[p].user
           w == MuteGrant(World, m, cmd[p].minuten, now, res)
       IN  /\ roles' = w.roles
           /\ mutes' = w.mutes
           /\ cmd' = [cmd EXCEPT ![p] = IdleCmd]
           /\ reply' = Reply("mute", m, IF res = "ok" THEN "ok"
                                        ELSE IF res = "forbidden" THEN "forbidden"
                                        ELSE "crashed")
           /\ hist' = [hist EXCEPT ![m] =
                  IF res = "ok" /\ cmd[p].clean THEN Clean("muted", cmd[p].pre)
                  ELSE NoHist]

\* ------------------------------------------------------------- actions: /unmute
\* /unmute up to its first role call: the not-muted guard
UnmuteBegin(p, m) ==
    /\ UNCHANGED notMute
    /\ CanBegin(p, m)
    /\ UNCHANGED <<serial, now, guildPresent, memberPresent, mutedRoleExists,
                   roles, backup, mutes, loop, hist>>
    /\ IF ~HoldsSentinel(World, m)
       THEN /\ reply' = Reply("unmute", m, "not_muted")
            /\ UNCHANGED cmd
       ELSE /\ cmd' = [cmd EXCEPT ![p] = [IdleCmd EXCEPT !.pc = "u_revoke", !.user = m]]
            /\ UNCHANGED reply

\* user.remove_roles(muted_role) has answered
UnmuteRevokeDone(p, res) ==
    /\ UNCHANGED notMute
    /\ cmd[p].pc = "u_revoke"
    /\ res \in Answers(cmd[p].user)
    /\ UNCHANGED <<serial, now, guildPresent, memberPresent, mutedRoleExists, loop>>
    /\ LET m == cmd[p].user
           e == UnmuteRevoke(World, m, res)
       IN  /\ roles' = e.w.roles
           /\ backup' = e.w.backup
           /\ mutes' = e.w.mutes
           /\ cmd' = [cmd EXCEPT ![p] =
                  IF e.next = "add"
                  THEN [cmd[p] EXCEPT !.pc = "u_add", !.to_add = e.to_add]
                  ELSE IdleCmd]
           /\ reply' = IF e.next = "add" THEN reply
                       ELSE Reply("unmute", m, IF e.next = "done" THEN "ok" ELSE e.next)
           /\ hist' = IF e.next = "done"
                      THEN [hist EXCEPT ![m] = UnmutedHist(m, TRUE, "muted", "unmuted")]
                      ELSE IF e.next = "add"
                      THEN [hist EXCEPT ![m] = UnmutedHist(m, TRUE, "muted", "unmuting")]
                      ELSE hist

\* user.add_roles(*to_add) has answered
UnmuteAddDone(p, res) ==
    /\ UNCHANGED notMute
    /\ cmd[p].pc = "u_add"
    /\ res \in Answers(cmd[p].user)
    /\ UNCHANGED <<serial, now, guildPresent, memberPresent, mutedRoleExists,
                   backup, loop>>
    /\ LET m == cmd[p].user
           e == UnmuteAdd(World, m, cmd[p].to_add, res)
       IN  /\ roles' = e.w.roles
           /\ mutes' = e.w.mutes
           /\ cmd' = [cmd EXCEPT ![p] = IdleCmd]
           /\ reply' = Reply("unmute", m, IF e.next = "done" THEN "ok" ELSE "crashed")
           /\ hist' = [hist EXCEPT ![m] = UnmutedHist(m, res = "ok", "unmuting", "unmuted")]

\* ------------------------------------------------------------- actions: auto_unmute_loop
\* one run of the loop body starts: read the rows, take the time, scan
SweepBegin(order) ==
    /\ UNCHANGED notMute
    /\ loop.pc = "idle"
    /\ serial => AllIdle
    /\ order \in Perms({r \in mutes : r.unmute_at # NULL})
    /\ LET a == LoopAdvance(mutes, order, now)
       IN  /\ mutes' = a.mutes
           /\ loop' = [pc |-> a.pc, rows |-> a.rows, now |-> now, to_add |-> {}]
    /\ UNCHANGED <<serial, now, guildPresent, memberPresent, mutedRoleExists,
                   roles, backup, cmd, reply, hist>>

\* member.remove_roles(muted_role) has answered
LoopRevokeDone(res) ==
    /\ UNCHANGED notMute
    /\ loop.pc = "l_revoke"
    /\ res \in Answers(Head(loop.rows).user_id)
    /\ UNCHANGED <<serial, now, guildPresent, memberPresent, mutedRoleExists,
                   cmd, reply>>
    /\ LET m == Head(loop.rows).user_id
           e == AutoRevoke(World, m, res)
           a == LoopAdvance(e.w.mutes, Tail(loop.rows), loop.now)
       IN  /\ roles' = e.w.roles
           /\ backup' = e.w.backup
           /\ mutes' = IF e.next = "skip" THEN a.mutes ELSE e.w.mutes
           /\ loop' = IF e.next = "skip"
                      THEN [loop EXCEPT !.pc = a.pc, !.rows = a.rows]
                      ELSE [loop EXCEPT !.pc = IF e.next = "add" THEN "l_add" ELSE "l_log",
                                        !.to_add = e.to_add]
           /\ hist' = IF e.next = "log"
                      THEN [hist EXCEPT ![m] = UnmutedHist(m, TRUE, "muted", "unmuted")]
                      ELSE IF e.next = "add"
                      THEN [hist EXCEPT ![m] = UnmutedHist(m, TRUE, "muted", "unmuting")]
                      ELSE hist

\* member.add_roles(*to_add) has answered
LoopAddDone(res) ==
    /\ UNCHANGED notMute
    /\ loop.pc = "l_add"
    /\ res \in Answers(Head(loop.rows).user_id)
    /\ UNCHANGED <<serial, now, guildPresent, memberPresent, mutedRoleExists,
                   backup, cmd, reply>>
    /\ LET m == Head(loop.rows).user_id
           e == AutoAdd(World, m, loop.to_add, res)
       IN  /\ roles' = e.w.roles
           /\ mutes' = e.w.mutes
           /\ loop' = [loop EXCEPT !.pc = "l_log", !.to_add = {}]
           /\ hist' = [hist EXCEPT ![m] = UnmutedHist(m, res = "ok", "unmuting", "unmuted")]

\* send_log has answered: Forbidden is swallowed, any other error ends the task
LoopLogDone(res) ==
    /\ UNCHANGED notMute
    /\ loop.pc = "l_log"
    /\ res \in CallResults
    /\ UNCHANGED <<serial, now, guildPresent, memberPresent, mutedRoleExists,
                   roles, backup, cmd, reply, hist>>
    /\ IF res = "error"
       THEN /\ loop' = [IdleLoop EXCEPT !.pc = "stopped"]
            /\ UNCHANGED mutes
       ELSE LET a == LoopAdvance(mutes, Tail(loop.rows), loop.now)
            IN  /\ mutes' = a.mutes
                /\ loop' = [loop EXCEPT !.pc = a.pc, !.rows = a.rows]

\* on_ready starts the task again when it is not running
LoopRestart ==
    /\ UNCHANGED notMute
    /\ loop.pc = "stopped"
    /\ loop' = IdleLoop
    /\ UNCHANGED <<serial, now, guildPresent, memberPresent, mutedRoleExists,
                   roles, backup, mutes, cmd, reply, hist>>

\* ------------------------------------------------------------- environment
\* the process stops with an invocation or a sweep in flight and is started
\* again: the locals of what was in flight are gone, the tables and the
\* platform's grants stay, and on_ready starts the loop
ProcessStop ==
    /\ UNCHANGED notMute
    /\ ~AllIdle
    /\ cmd' = [p \in Handlers |-> IdleCmd]
    /\ loop' = IdleLoop
    /\ hist' = [m \in Members |-> NoHist]
    /\ UNCHANGED <<serial, now, guildPresent, memberPresent, mutedRoleExists,
                   roles, backup, mutes, reply>>

Tick ==
    /\ UNCHANGED notMute
    /\ now < MaxTime
    /\ serial => AllIdle
    /\ now' = now + 1
    /\ UNCHANGED <<serial, guildPresent, memberPresent, mutedRoleExists,
                   roles, backup, mutes, cmd, reply, loop, hist>>

\* the member leaves the guild: the platform drops the grants
MemberLeave(m) ==
    /\ UNCHANGED notMute
    /\ memberPresent[m]
    /\ AllIdle
    /\ ~serial => m = 1
    /\ memberPresent' = [memberPresent EXCEPT ![m] = FALSE]
    /\ roles' = [roles EXCEPT ![m] = {}]
    /\ hist' = [hist EXCEPT ![m] = NoHist]
    /\ UNCHANGED <<serial, now, guildPresent, mutedRoleExists, backup, mutes,
                   cmd, reply, loop>>

\* the bot is removed from the guild
GuildLeave ==
    /\ UNCHANGED notMute
    /\ guildPresent
    /\ AllIdle
    /\ guildPresent' = FALSE
    /\ UNCHANGED <<serial, now, memberPresent, mutedRoleExists,
                   roles, backup, mutes, cmd, reply, loop, hist>>

\* member 1 holds A, B (revocable) and C (above the bot); member 12 holds no grant
InitialRoles ==
    [m \in Members |-> IF m = 1 THEN GrantRoles \cup {DefaultRole}
                       ELSE {DefaultRole}]

InitMute(mode) ==
    /\ serial = mode
    /\ now = 0
    /\ guildPresent = TRUE
    /\ memberPresent = [m \in Members |-> TRUE]
    /\ mutedRoleExists = FALSE
    /\ roles = InitialRoles
    /\ backup = {}
    /\ mutes = {}
    /\ cmd = [p \in Handlers |-> IdleCmd]
    /\ reply = NoReply
    /\ loop = IdleLoop
    /\ hist = [m \in Members |-> NoHist]

NextMute ==
    \/ \E p \in Handlers, m \in Members, minuten \in MinutesInputs, setup_ok \in BOOLEAN :
           MuteBegin(p, m, minuten, setup_ok)
    \/ \E p \in Handlers, res \in CallResults : MuteRevokeDone(p, res)
    \/ \E p \in Handlers, res \in CallResults : MuteGrantDone(p, res)
    \/ \E p \in Handlers, m \in Members : UnmuteBegin(p, m)
    \/ \E p \in Handlers, res \in CallResults : UnmuteRevokeDone(p, res)
    \/ \E p \in Handlers, res \in CallResults : UnmuteAddDone(p, res)
    \/ \E order \in Perms({r \in mutes : r.unmute_at # NULL}) : SweepBegin(order)
    \/ \E res \in CallResults : LoopRevokeDone(res)
    \/ \E res \in CallResults : LoopAddDone(res)
    \/ \E res \in CallResults : LoopLogDone(res)
    \/ LoopRestart
    \/ ProcessStop
    \/ Tick
    \/ \E m \in Members : MemberLeave(m)
    \/ GuildLeave

\* ------------------------------------------------------------- tickets
\* A behaviour creates at most MaxChannels ticket channels.
MaxChannels == 2

\* a member holding a role of TICKET_STAFF_ROLE_IDS / the market staff roles
Staff == 7

\* a member with guild_permissions.administrator, who also holds the market
\* region's allowed role
Admin == 9

Actors == Members \cup {Staff, Admin}

\* one of the three panel buttons (question); KindText knows a second
TicketKinds == {"Question"}

KindText(kind) ==
    CASE kind = "Question" -> <<"Q", "u", "e", "s", "t", "i", "o", "n">>
      [] kind = "Partnership" -> <<"P", "a", "r", "t", "n", "e", "r", "s", "h", "i", "p">>

is_staff(u) == u \in {Staff, Admin}

\* p.split(c, 1) for a p that contains c
SplitFirst(p, c) ==
    LET i == CHOOSE i \in 1..Len(p) : p[i] = c /\ \A j \in 1..(i - 1) : p[j] # c
    IN  <<SubSeq(p, 1, i - 1), SubSeq(p, i + 1, Len(p))>>

\* faulty variant: the parts, keys and values are taken as they are cut,
\* without strip()
KeyValuesUnstripped(txt) ==
    LET parts == Split(txt, "|")
        withEq == SelectSeq(parts, LAMBDA p : Contains(p, <<"=">>))
    IN  [i \in 1..Len(withEq) |->
            LET kv == SplitFirst(withEq[i], "=")
            IN  [k |-> kv[1], v |-> kv[2]]]

\* the "k=v" parts of a "|"-separated text, in order, keys and values stripped
KeyValues(txt) ==
    LET parts == Split(txt, "|")
        stripped == [i \in 1..Len(parts) |-> Strip(parts[i])]
        withEq == SelectSeq(stripped, LAMBDA p : Contains(p, <<"=">>))
    IN  [i \in 1..Len(withEq) |->
            LET kv == SplitFirst(withEq[i], "=")
            IN  [k |-> Strip(kv[1]), v |-> Strip(kv[2])]]

\* data.get(key): the value of the last pair with that key, NULL for None
DictGet(data, key) ==
    LET hits == {i \in 1..Len(data) : data[i].k = key}
    IN  IF hits = {} THEN NULL
        ELSE data[CHOOSE i \in hits : \A j \in hits : j <= i].v

parse_topic(topic) == IF topic = <<>> THEN <<>> ELSE KeyValues(topic)

\* _create_ticket, line 633
TicketTopic(kind, member_id) ==
    <<"t", "i", "c", "k", "e", "t", "_", "t", "y", "p", "e", "=">> \o KindText(kind) \o <<" ", "|", " ", "u", "s", "e", "r", "_", "i", "d", "=">> \o Str(member_id)
        \o <<" ", "|", " ", "c", "l", "a", "i", "m", "e", "d", "_", "b", "y", "=", "n", "o", "n", "e">>

\* _create_ticket, lines 615-617: the channels the duplicate guard matches
DuplicateHits(chs, member_id) ==
    {i \in 1..Len(chs) :
        chs[i].topic # <<>> /\ Contains(chs[i].topic, <<"u", "s", "e", "r", "_", "i", "d", "=">> \o Str(member_id))}

\* the channels whose topic encodes member_id as owner
OwnedBy(chs, member_id) ==
    {i \in 1..Len(chs) : DictGet(parse_topic(chs[i].topic), <<"u", "s", "e", "r", "_", "i", "d">>) = Str(member_id)}

RECURSIVE NextFree(_, _)
NextFree(existing, n) == IF n \in existing THEN NextFree(existing, n + 1) ELSE n

\* faulty variant: numbering by the count of channels instead of the scan of
\* the names of lines 415-419
NextTicketNumberByCount(chs) == Len(chs) + 1

\* the channel named "ticket-<n>" is kept as its number n
next_ticket_number(chs) == NextFree({chs[i].no : i \in 1..Len(chs)}, 1)

\* claim_ticket, lines 570-581
ClaimedTopic(topic, user_id) ==
    IF Contains(topic, <<"c", "l", "a", "i", "m", "e", "d", "_", "b", "y", "=">>)
    THEN LET parts == Split(topic, "|")
             stripped == [i \in 1..Len(parts) |-> Strip(parts[i])]
             fixed == [i \in 1..Len(parts) |->
                          IF StartsWith(stripped[i], <<"c", "l", "a", "i", "m", "e", "d", "_", "b", "y", "=">>)
                          THEN <<"c", "l", "a", "i", "m", "e", "d", "_", "b", "y", "=">> \o Str(user_id)
                          ELSE stripped[i]]
         IN  Join(fixed, <<" ", "|", " ">>)
    ELSE (IF topic # <<>> THEN topic \o <<" ", "|", " ">> ELSE <<>>)
             \o <<"c", "l", "a", "i", "m", "e", "d", "_", "b", "y", "=">> \o Str(user_id)

IdleTicket == [pc |-> "idle", user |-> 0, ch |-> 0, no |-> 0, topic |-> <<>>, logged |-> "no"]

TReply(op, u, outcome, ref) == [op |-> op, user |-> u, outcome |-> outcome, ref |-> ref]

NoTReply == TReply("none", 0, "none", 0)

ChannelIndex(id) == {i \in 1..Len(channels) : channels[i].id = id}

WithoutChannel(chs, id) == SelectSeq(chs, LAMBDA c : c.id # id)

TicketAnswer(p, r) ==
    /\ treply' = r
    /\ tcmd' = [tcmd EXCEPT ![p] = IdleTicket]

\* _create_ticket up to the await of create_text_channel (lines 602-634)
CreateTicketBegin(p, m, kind, category_ok) ==
    /\ tcmd[p].pc = "idle"
    /\ UNCHANGED <<muteVars, listingVars, codecVars, channels, nextChannelId>>
    /\ IF ~category_ok
       THEN TicketAnswer(p, TReply("open", m, "no_category", 0))
       ELSE LET hits == DuplicateHits(channels, m)
            IN  IF hits # {}
                THEN TicketAnswer(p, TReply("open", m, "duplicate",
                         channels[CHOOSE i \in hits : \A j \in hits : i <= j].id))
                ELSE /\ nextChannelId + Cardinality({q \in Handlers : tcmd[q].pc = "t_create"})
                            <= MaxChannels
                     /\ tcmd' = [tcmd EXCEPT ![p] =
                            [pc |-> "t_create", user |-> m, ch |-> 0,
                             no |-> next_ticket_number(channels),
                             topic |-> TicketTopic(kind, m), logged |-> "no"]]
                     /\ treply' = NoTReply

\* create_text_channel answers; the rest of _create_ticket (lines 634-662)
\* posts the manage view for the owner, answers and logs
CreateTicketDone(p, res) ==
    /\ tcmd[p].pc = "t_create"
    /\ UNCHANGED <<muteVars, listingVars, codecVars>>
    /\ IF res = "ok"
       THEN /\ channels' = Append(channels,
                   [id |-> nextChannelId, no |-> tcmd[p].no, topic |-> tcmd[p].topic,
                    ticket_owner_id |-> tcmd[p].user])
            /\ nextChannelId' = nextChannelId + 1
            /\ TicketAnswer(p, TReply("open", tcmd[p].user, "created", nextChannelId))
       ELSE /\ UNCHANGED <<channels, nextChannelId>>
            /\ TicketAnswer(p, TReply("open", tcmd[p].user, "crashed", 0))

\* faulty variant: claim_ticket without the staff check of lines 559-560
ClaimTicketBeginAnyone(p, u, c) ==
    /\ tcmd[p].pc = "idle"
    /\ c \in 1..Len(channels) /\ channels[c].ticket_owner_id # 0
    /\ UNCHANGED <<muteVars, listingVars, codecVars, channels, nextChannelId>>
    /\ LET ch == channels[c]
           claimed_by == DictGet(parse_topic(ch.topic), <<"c", "l", "a", "i", "m", "e", "d", "_", "b", "y">>)
       IN  IF claimed_by # NULL /\ claimed_by # <<>> /\ claimed_by # <<"n", "o", "n", "e">>
           THEN TicketAnswer(p, TReply("claim", u, "already_claimed", ch.id))
           ELSE /\ tcmd' = [tcmd EXCEPT ![p] =
                       [pc |-> "t_edit", user |-> u, ch |-> ch.id, no |-> ch.no,
                        topic |-> ClaimedTopic(ch.topic, u), logged |-> "no"]]
                /\ treply' = NoTReply

\* faulty variant: claim_ticket without the claimant check of lines 567-568
ClaimTicketBeginNoClaimedCheck(p, u, c) ==
    /\ tcmd[p].pc = "idle"
    /\ c \in 1..Len(channels) /\ channels[c].ticket_owner_id # 0
    /\ UNCHANGED <<muteVars, listingVars, codecVars, channels, nextChannelId>>
    /\ LET ch == channels[c]
       IN  IF ~is_staff(u)
           THEN TicketAnswer(p, TReply("claim", u, "not_staff", ch.id))
           ELSE /\ tcmd' = [tcmd EXCEPT ![p] =
                       [pc |-> "t_edit", user |-> u, ch |-> ch.id, no |-> ch.no,
                        topic |-> ClaimedTopic(ch.topic, u), logged |-> "no"]]
                /\ treply' = NoTReply

\* claim_ticket up to the await of ch.edit (lines 556-583)
ClaimTicketBegin(p, u, c) ==
    /\ tcmd[p].pc = "idle"
    /\ c \in 1..Len(channels) /\ channels[c].ticket_owner_id # 0
    /\ UNCHANGED <<muteVars, listingVars, codecVars, channels, nextChannelId>>
    /\ LET ch == channels[c]
           claimed_by == DictGet(parse_topic(ch.topic), <<"c", "l", "a", "i", "m", "e", "d", "_", "b", "y">>)
       IN  IF ~is_staff(u)
           THEN TicketAnswer(p, TReply("claim", u, "not_staff", ch.id))
           ELSE IF claimed_by # NULL /\ claimed_by # <<>> /\ claimed_by # <<"n", "o", "n", "e">>
           THEN TicketAnswer(p, TReply("claim", u, "already_claimed", ch.id))
           ELSE /\ tcmd' = [tcmd EXCEPT ![p] =
                       [pc |-> "t_edit", user |-> u, ch |-> ch.id, no |-> ch.no,
                        topic |-> ClaimedTopic(ch.topic, u), logged |-> "no"]]
                /\ treply' = NoTReply

\* faulty variant: an edit that finds the ticket claimed meanwhile is dropped
ClaimTicketEditDoneFirstWins(p, res) ==
    /\ tcmd[p].pc = "t_edit"
    /\ UNCHANGED <<muteVars, listingVars, codecVars, nextChannelId>>
    /\ ChannelIndex(tcmd[p].ch) = {} => res = "error"
    /\ IF res = "ok"
       THEN /\ channels' = [i \in 1..Len(channels) |->
                   IF channels[i].id = tcmd[p].ch
                          /\ DictGet(parse_topic(channels[i].topic),
                                     <<"c", "l", "a", "i", "m", "e", "d", "_", "b", "y">>)
                                 = <<"n", "o", "n", "e">>
                   THEN [channels[i] EXCEPT !.topic = tcmd[p].topic]
                   ELSE channels[i]]
            /\ TicketAnswer(p, TReply("claim", tcmd[p].user, "claimed", tcmd[p].ch))
       ELSE /\ UNCHANGED channels
            /\ TicketAnswer(p, TReply("claim", tcmd[p].user, "crashed", tcmd[p].ch))

\* ch.edit(topic=...) answers (lines 583-595); a deleted channel cannot be edited
ClaimTicketEditDone(p, res) ==
    /\ tcmd[p].pc = "t_edit"
    /\ UNCHANGED <<muteVars, listingVars, codecVars, nextChannelId>>
    /\ ChannelIndex(tcmd[p].ch) = {} => res = "error"
    /\ IF res = "ok"
       THEN /\ channels' = [i \in 1..Len(channels) |->
                   IF channels[i].id = tcmd[p].ch
                   THEN [channels[i] EXCEPT !.topic = tcmd[p].topic]
                   ELSE channels[i]]
            /\ TicketAnswer(p, TReply("claim", tcmd[p].user, "claimed", tcmd[p].ch))
       ELSE /\ UNCHANGED channels
            /\ TicketAnswer(p, TReply("claim", tcmd[p].user, "crashed", tcmd[p].ch))

\* close_ticket, lines 530-531: the button compares with the owner its view
\* was built for
CloseTicketAllowed(u, ch) == u = ch.ticket_owner_id \/ is_staff(u)

\* ticket_close, line 1160: int(topic_data.get("user_id", "0") or 0), for a
\* value that is absent, empty or all digits
TopicOwnerId(topic) ==
    LET v == DictGet(parse_topic(topic), <<"u", "s", "e", "r", "_", "i", "d">>)
    IN  IF v = NULL \/ v = <<>> THEN 0 ELSE ParseInt(v)

\* faulty variant: the owner test done as _create_ticket's substring guard
TicketCloseAllowedSubstring(u, ch) ==
    Contains(ch.topic, <<"u", "s", "e", "r", "_", "i", "d", "=">> \o Str(u)) \/ is_staff(u)

\* ticket_close, lines 1159-1162: the command compares with the owner the
\* channel topic encodes
TicketCloseAllowed(u, ch) == TopicOwnerId(ch.topic) = u \/ is_staff(u)

\* faulty variant: close_ticket goes from the acknowledgement straight to
\* ch.delete
CloseTicketBeginDeleteFirst(p, u, c) ==
    /\ tcmd[p].pc = "idle"
    /\ c \in 1..Len(channels) /\ channels[c].ticket_owner_id # 0
    /\ UNCHANGED <<muteVars, listingVars, codecVars, channels, nextChannelId>>
    /\ LET ch == channels[c]
       IN  IF ~CloseTicketAllowed(u, ch)
           THEN TicketAnswer(p, TReply("close", u, "not_allowed", ch.id))
           ELSE /\ tcmd' = [tcmd EXCEPT ![p] =
                       [pc |-> "t_delete", user |-> u, ch |-> ch.id, no |-> ch.no,
                        topic |-> <<>>, logged |-> "no"]]
                /\ treply' = NoTReply

\* close_ticket up to the await of the transcript and send_log: the checks
\* and the acknowledgement (lines 523-534)
CloseTicketBegin(p, u, c) ==
    /\ tcmd[p].pc = "idle"
    /\ c \in 1..Len(channels) /\ channels[c].ticket_owner_id # 0
    /\ UNCHANGED <<muteVars, listingVars, codecVars, channels, nextChannelId>>
    /\ LET ch == channels[c]
       IN  IF ~CloseTicketAllowed(u, ch)
           THEN TicketAnswer(p, TReply("close", u, "not_allowed", ch.id))
           ELSE /\ tcmd' = [tcmd EXCEPT ![p] =
                       [pc |-> "t_log", user |-> u, ch |-> ch.id, no |-> ch.no,
                        topic |-> <<>>, logged |-> "no"]]
                /\ treply' = NoTReply

\* /ticket close up to the await of the transcript and send_log: the checks
\* and the acknowledgement (lines 1151-1165), used in ticket channel c; int()
\* raises on a user_id value that is not a number
TicketCloseBegin(p, u, c) ==
    /\ tcmd[p].pc = "idle"
    /\ c \in 1..Len(channels)
    /\ UNCHANGED <<muteVars, listingVars, codecVars, channels, nextChannelId>>
    /\ LET ch == channels[c]
           v == DictGet(parse_topic(ch.topic), <<"u", "s", "e", "r", "_", "i", "d">>)
       IN  IF v # NULL /\ v # <<>> /\ ~isdigit(v)
           THEN TicketAnswer(p, TReply("close", u, "crashed", ch.id))
           ELSE IF ~TicketCloseAllowed(u, ch)
           THEN TicketAnswer(p, TReply("close", u, "not_allowed", ch.id))
           ELSE /\ tcmd' = [tcmd EXCEPT ![p] =
                       [pc |-> "t_log", user |-> u, ch |-> ch.id, no |-> ch.no,
                        topic |-> <<>>, logged |-> "no"]]
                /\ treply' = NoTReply

\* the transcript is built and send_log has answered (lines 536-547 and
\* 1167-1178), the grace delay follows: send_log returns without posting when
\* there is no log channel and swallows Forbidden; any other failure ends the
\* handler, and so does reading the history of a channel deleted meanwhile
CloseTicketLogDone(p, res) ==
    /\ tcmd[p].pc = "t_log"
    /\ UNCHANGED <<muteVars, listingVars, codecVars, channels, nextChannelId>>
    /\ ChannelIndex(tcmd[p].ch) = {} => res = "error"
    /\ IF res = "error"
       THEN TicketAnswer(p, TReply("close", tcmd[p].user, "crashed", tcmd[p].ch))
       ELSE /\ tcmd' = [tcmd EXCEPT ![p].pc = "t_delete",
                                    ![p].logged = IF res = "ok" THEN "posted" ELSE "dropped"]
            /\ treply' = NoTReply

\* ch.delete answers (lines 550-553 and 1181-1184); Forbidden is swallowed
CloseTicketDeleteDone(p, res) ==
    /\ tcmd[p].pc = "t_delete"
    /\ UNCHANGED <<muteVars, listingVars, codecVars, nextChannelId>>
    /\ ChannelIndex(tcmd[p].ch) = {} => res = "error"
    /\ IF res = "ok"
       THEN /\ channels' = WithoutChannel(channels, tcmd[p].ch)
            /\ TicketAnswer(p, TReply("close", tcmd[p].user, "closed", tcmd[p].ch))
       ELSE /\ UNCHANGED channels
            /\ TicketAnswer(p, TReply("close", tcmd[p].user,
                   IF res = "forbidden" THEN "not_deleted" ELSE "crashed", tcmd[p].ch))

InitTicketVars ==
    /\ channels = <<>>
    /\ nextChannelId = 1
    /\ tcmd = [p \in Handlers |-> IdleTicket]
    /\ treply = NoTReply

\* the handlers interleaved; closing is by the button (the /ticket close
\* command, which differs in its owner test only, is in NextTicketSerial)
NextTicket ==
    \/ \E p \in Handlers, m \in Members, kind \in TicketKinds, category_ok \in BOOLEAN :
           CreateTicketBegin(p, m, kind, category_ok)
    \/ \E p \in Handlers, res \in CallResults : CreateTicketDone(p, res)
    \/ \E p \in Handlers, u \in Actors, c \in 1..MaxChannels : ClaimTicketBegin(p, u, c)
    \/ \E p \in Handlers, res \in CallResults : ClaimTicketEditDone(p, res)
    \/ \E p \in Handlers, u \in Actors, c \in 1..MaxChannels : CloseTicketBegin(p, u, c)
    \/ \E p \in Handlers, res \in CallResults \cup {"no_channel"} : CloseTicketLogDone(p, res)
    \/ \E p \in Handlers, res \in CallResults : CloseTicketDeleteDone(p, res)

\* ticket requests handled one at a time: every request is taken by the same
\* handler, so none starts before the one before it has ended
SerialHandlers == {1}

NextTicketSerial ==
    \/ \E p \in SerialHandlers, m \in Members, kind \in TicketKinds, category_ok \in BOOLEAN :
           CreateTicketBegin(p, m, kind, category_ok)
    \/ \E p \in SerialHandlers, res \in CallResults : CreateTicketDone(p, res)
    \/ \E p \in SerialHandlers, u \in Actors, c \in 1..MaxChannels : ClaimTicketBegin(p, u, c)
    \/ \E p \in SerialHandlers, res \in CallResults : ClaimTicketEditDone(p, res)
    \/ \E p \in SerialHandlers, u \in Actors, c \in 1..MaxChannels : CloseTicketBegin(p, u, c)
    \/ \E p \in SerialHandlers, u \in Actors, c \in 1..MaxChannels : TicketCloseBegin(p, u, c)
    \/ \E p \in SerialHandlers, res \in CallResults \cup {"no_channel"} :
           CloseTicketLogDone(p, res)
    \/ \E p \in SerialHandlers, res \in CallResults : CloseTicketDeleteDone(p, res)

\* a moderator edits the topic of ticket channel c by hand in the client and
\* leaves only its first n "|"-separated parts (none: the topic is cleared)
TopicEdited(c, n) ==
    /\ \A p \in Handlers : tcmd[p].pc = "idle"
    /\ c \in 1..Len(channels)
    /\ UNCHANGED <<muteVars, listingVars, codecVars, nextChannelId, tcmd>>
    /\ LET parts == Split(channels[c].topic, "|")
           stripped == [i \in 1..Len(parts) |-> Strip(parts[i])]
       IN  /\ channels[c].topic # <<>>
           /\ n < Len(parts)
           /\ channels' = [channels EXCEPT ![c].topic =
                               Join(SubSeq(stripped, 1, n), <<" ", "|", " ">>)]
    /\ treply' = NoTReply

\* the ticket handlers one at a time, on topics that may have been edited by hand
NextTicketStale ==
    \/ NextTicketSerial
    \/ \E c \in 1..MaxChannels, n \in 0..2 : TopicEdited(c, n)

\* ------------------------------------------------------------- market listings
\* one region, "berlin"; members 1 and 12 and Admin hold its allowed role,
\* Staff is market staff and does not hold it
Region == <<"b", "e", "r", "l", "i", "n">>

has_role(u) == u \in Members \cup {Admin}

is_market_staff(u) == u \in {Staff, Admin}

\* claimed_by=None
NoClaimer == -1

\* market_meta, lines 678-680
market_meta(seller_id, region_key, claimed_by) ==
    <<"s", "e", "l", "l", "e", "r", "_", "i", "d", "=">> \o Str(seller_id) \o <<"|", "r", "e", "g", "i", "o", "n", "=">> \o region_key
        \o <<"|", "c", "l", "a", "i", "m", "e", "d", "_", "b", "y", "=">> \o Str(IF claimed_by = NoClaimer THEN 0 ELSE claimed_by)

IntOrZero(v) == IF v # NULL /\ isdigit(v) THEN ParseInt(v) ELSE 0

\* parse_market_meta, lines 683-700
parse_market_meta(footer) ==
    IF footer = <<>> THEN [seller_id |-> 0, region |-> NULL, claimed_by |-> 0]
    ELSE LET data == KeyValues(footer)
         IN  [seller_id |-> IntOrZero(DictGet(data, <<"s", "e", "l", "l", "e", "r", "_", "i", "d">>)),
              region |-> DictGet(data, <<"r", "e", "g", "i", "o", "n">>),
              claimed_by |-> IntOrZero(DictGet(data, <<"c", "l", "a", "i", "m", "e", "d", "_", "b", "y">>))]

NoEmbed == [status |-> <<"none">>, footer |-> <<>>]

NoListing == [exists |-> FALSE, emb |-> NoEmbed, disabled |-> FALSE]

IdleListing == [pc |-> "idle", user |-> 0, emb |-> NoEmbed]

LReply(op, u, outcome) == [op |-> op, user |-> u, outcome |-> outcome]

NoLReply == LReply("none", 0, "none")

ListingAnswer(p, r) ==
    /\ lreply' = r
    /\ lcmd' = [lcmd EXCEPT ![p] = IdleListing]

\* a button of the listing can be pressed: the message exists, its buttons are
\* enabled, and the handler is free
CanClick(p) == listing.exists /\ ~listing.disabled /\ lcmd[p].pc = "idle"

\* the metadata guard shared by contact, claim and close
MetaMissing(meta) == meta.region = NULL \/ meta.region = <<>> \/ meta.seller_id = 0

\* faulty variant: on_submit without the role check of line 918
PostListingUnchecked(m, res) ==
    /\ ~listing.exists
    /\ UNCHANGED <<muteVars, ticketVars, codecVars, lcmd>>
    /\ IF res = "ok"
       THEN /\ listing' = [exists |-> TRUE,
                           emb |-> [status |-> <<"open">>,
                                    footer |-> market_meta(m, Region, NoClaimer)],
                           disabled |-> FALSE]
            /\ lreply' = LReply("post", m, "posted")
       ELSE lreply' = LReply("post", m, "crashed") /\ UNCHANGED listing

\* MarketSaleModal.on_submit, lines 909-967
PostListing(m, res) ==
    /\ ~listing.exists
    /\ UNCHANGED <<muteVars, ticketVars, codecVars, lcmd>>
    /\ IF ~has_role(m)
       THEN lreply' = LReply("post", m, "no_role") /\ UNCHANGED listing
       ELSE IF res = "ok"
       THEN /\ listing' = [exists |-> TRUE,
                           emb |-> [status |-> <<"open">>,
                                    footer |-> market_meta(m, Region, NoClaimer)],
                           disabled |-> FALSE]
            /\ lreply' = LReply("post", m, "posted")
       ELSE lreply' = LReply("post", m, "crashed") /\ UNCHANGED listing

\* faulty variant: contact without the seller check of line 729
ContactClickNoSellerCheck(p, u) ==
    /\ CanClick(p)
    /\ UNCHANGED <<muteVars, ticketVars, codecVars, listing>>
    /\ LET meta == parse_market_meta(listing.emb.footer)
       IN  IF MetaMissing(meta) THEN ListingAnswer(p, LReply("contact", u, "no_meta"))
           ELSE /\ lcmd' = [lcmd EXCEPT ![p] =
                       [pc |-> "k_send", user |-> u, emb |-> listing.emb]]
                /\ UNCHANGED lreply

\* contact: the press carries the message as it is then (interaction.message);
\* the handler runs on that copy up to its first send (lines 712-744)
ContactClick(p, u) ==
    /\ CanClick(p)
    /\ UNCHANGED <<muteVars, ticketVars, codecVars, listing>>
    /\ LET meta == parse_market_meta(listing.emb.footer)
       IN  IF MetaMissing(meta) THEN ListingAnswer(p, LReply("contact", u, "no_meta"))
           ELSE IF u = meta.seller_id
           THEN ListingAnswer(p, LReply("contact", u, "is_seller"))
           ELSE /\ lcmd' = [lcmd EXCEPT ![p] =
                       [pc |-> "k_send", user |-> u, emb |-> listing.emb]]
                /\ UNCHANGED lreply

\* the answer of a contact that reached its sends: whether the ping was posted
\* (outcome "pinged") and whether the log record was
ContactReply(u, outcome, logged) ==
    [op |-> "contact", user |-> u, outcome |-> outcome, logged |-> logged]

\* the contact ping is sent to the channel, then send_log posts the log record
\* (lines 744-757); send_log swallows Forbidden only.  log_res is the result
\* of the log post, which is tried only after the ping was sent
ContactSendDone(p, res, log_res) ==
    /\ lcmd[p].pc = "k_send"
    /\ res # "ok" => log_res = "ok"
    /\ UNCHANGED <<muteVars, ticketVars, codecVars, listing>>
    /\ ListingAnswer(p, IF res = "ok"
                        THEN ContactReply(lcmd[p].user, "pinged", log_res = "ok")
                        ELSE ContactReply(lcmd[p].user, "crashed", FALSE))

\* faulty variant: claim without the already-claimed check of line 790
ClaimClickNoClaimedCheck(p, u) ==
    /\ CanClick(p)
    /\ UNCHANGED <<muteVars, ticketVars, codecVars, listing>>
    /\ LET meta == parse_market_meta(listing.emb.footer)
       IN  IF MetaMissing(meta) THEN ListingAnswer(p, LReply("claim", u, "no_meta"))
           ELSE IF u = meta.seller_id
           THEN ListingAnswer(p, LReply("claim", u, "is_seller"))
           ELSE IF ~has_role(u)
           THEN ListingAnswer(p, LReply("claim", u, "no_role"))
           ELSE /\ lcmd' = [lcmd EXCEPT ![p] =
                       [pc |-> "c_edit", user |-> u,
                        emb |-> [status |-> <<"claimed", u>>,
                                 footer |-> market_meta(meta.seller_id, meta.region, u)]]]
                /\ UNCHANGED lreply

\* claim up to the await of msg.edit (lines 760-806)
ClaimClick(p, u) ==
    /\ CanClick(p)
    /\ UNCHANGED <<muteVars, ticketVars, codecVars, listing>>
    /\ LET meta == parse_market_meta(listing.emb.footer)
       IN  IF MetaMissing(meta) THEN ListingAnswer(p, LReply("claim", u, "no_meta"))
           ELSE IF u = meta.seller_id
           THEN ListingAnswer(p, LReply("claim", u, "is_seller"))
           ELSE IF ~has_role(u)
           THEN ListingAnswer(p, LReply("claim", u, "no_role"))
           ELSE IF meta.claimed_by # 0
           THEN ListingAnswer(p, LReply("claim", u, "already_claimed"))
           ELSE /\ lcmd' = [lcmd EXCEPT ![p] =
                       [pc |-> "c_edit", user |-> u,
                        emb |-> [status |-> <<"claimed", u>>,
                                 footer |-> market_meta(meta.seller_id, meta.region, u)]]]
                /\ UNCHANGED lreply

\* faulty variant: the edit replaces the status field and leaves the footer
ClaimEditDoneStatusOnly(p, res) ==
    /\ lcmd[p].pc = "c_edit"
    /\ UNCHANGED <<muteVars, ticketVars, codecVars>>
    /\ IF res = "ok"
       THEN /\ listing' = [listing EXCEPT !.emb.status = lcmd[p].emb.status]
            /\ ListingAnswer(p, LReply("claim", lcmd[p].user, "claimed"))
       ELSE /\ UNCHANGED listing
            /\ ListingAnswer(p, LReply("claim", lcmd[p].user, "crashed"))

\* faulty variant: an edit is applied only while the listing is unclaimed
ClaimEditDoneFirstWins(p, res) ==
    /\ lcmd[p].pc = "c_edit"
    /\ UNCHANGED <<muteVars, ticketVars, codecVars>>
    /\ IF res = "ok" /\ parse_market_meta(listing.emb.footer).claimed_by = 0
       THEN /\ listing' = [listing EXCEPT !.emb = lcmd[p].emb]
            /\ ListingAnswer(p, LReply("claim", lcmd[p].user, "claimed"))
       ELSE /\ UNCHANGED listing
            /\ ListingAnswer(p, LReply("claim", lcmd[p].user, "crashed"))

\* msg.edit(embed=new_emb) answers (lines 806-821): the buttons are left as they are
ClaimEditDone(p, res) ==
    /\ lcmd[p].pc = "c_edit"
    /\ UNCHANGED <<muteVars, ticketVars, codecVars>>
    /\ IF res = "ok"
       THEN /\ listing' = [listing EXCEPT !.emb = lcmd[p].emb]
            /\ ListingAnswer(p, LReply("claim", lcmd[p].user, "claimed"))
       ELSE /\ UNCHANGED listing
            /\ ListingAnswer(p, LReply("claim", lcmd[p].user, "crashed"))

\* faulty variant: close without the seller-or-staff check of lines 845-850
CloseClickUnguarded(p, u) ==
    /\ CanClick(p)
    /\ UNCHANGED <<muteVars, ticketVars, codecVars, listing>>
    /\ LET meta == parse_market_meta(listing.emb.footer)
       IN  IF MetaMissing(meta) THEN ListingAnswer(p, LReply("close", u, "no_meta"))
           ELSE /\ lcmd' = [lcmd EXCEPT ![p] =
                       [pc |-> "x_edit", user |-> u,
                        emb |-> [status |-> <<"closed">>,
                                 footer |-> market_meta(meta.seller_id, meta.region,
                                                        meta.claimed_by)]]]
                /\ UNCHANGED lreply

\* close up to the await of msg.edit (lines 824-866)
CloseClick(p, u) ==
    /\ CanClick(p)
    /\ UNCHANGED <<muteVars, ticketVars, codecVars, listing>>
    /\ LET meta == parse_market_meta(listing.emb.footer)
           is_owner == u = meta.seller_id
       IN  IF MetaMissing(meta) THEN ListingAnswer(p, LReply("close", u, "no_meta"))
           ELSE IF ~(is_owner \/ is_market_staff(u))
           THEN ListingAnswer(p, LReply("close", u, "not_allowed"))
           ELSE /\ lcmd' = [lcmd EXCEPT ![p] =
                       [pc |-> "x_edit", user |-> u,
                        emb |-> [status |-> <<"closed">>,
                                 footer |-> market_meta(meta.seller_id, meta.region,
                                                        meta.claimed_by)]]]
                /\ UNCHANGED lreply

\* msg.edit(embed=new_emb, view=MarketListingView(disabled=True)) answers (lines 866-881)
CloseEditDone(p, res) ==
    /\ lcmd[p].pc = "x_edit"
    /\ UNCHANGED <<muteVars, ticketVars, codecVars>>
    /\ IF res = "ok"
       THEN /\ listing' = [listing EXCEPT !.emb = lcmd[p].emb, !.disabled = TRUE]
            /\ ListingAnswer(p, LReply("close", lcmd[p].user, "closed"))
       ELSE /\ UNCHANGED listing
            /\ ListingAnswer(p, LReply("close", lcmd[p].user, "crashed"))

InitListingVars ==
    /\ listing = NoListing
    /\ lcmd = [p \in Handlers |-> IdleListing]
    /\ lreply = NoLReply

NextListing ==
    \/ \E m \in Actors, res \in CallResults : PostListing(m, res)
    \/ \E p \in Handlers, u \in Actors : ContactClick(p, u)
    \/ \E p \in Handlers, res \in CallResults, log_res \in CallResults :
           ContactSendDone(p, res, log_res)
    \/ \E p \in Handlers, u \in Actors : ClaimClick(p, u)
    \/ \E p \in Handlers, res \in CallResults : ClaimEditDone(p, res)
    \/ \E p \in Handlers, u \in Actors : CloseClick(p, u)
    \/ \E p \in Handlers, res \in CallResults : CloseEditDone(p, res)

\* ------------------------------------------------------------- text codecs
\* the longest value, and the most fields, of a mapping put through parse_topic
MaxFieldLen == 2

MaxFields == 2

\* keys and values without "|" and without "=": letters and blanks
KeyChars == {"a", "b", " "}

ValueChars == {"a", " "}

KeyTexts == {<<>>} \cup {<<c>> : c \in KeyChars}

ValueTexts == UNION {[1..n -> ValueChars] : n \in 0..MaxFieldLen}

\* a mapping as a dict holds it: fields in insertion order, keys distinct
FieldMappings ==
    UNION {{s \in [1..n -> [k : KeyTexts, v : ValueTexts]] :
               \A i, j \in 1..n : i # j => s[i].k # s[j].k} : n \in 0..MaxFields}

\* the arguments market_meta is called with: member ids (0 is no member), a
\* key of MARKET_CFG, a member id or None
MetaArgs ==
    [seller_id : {0} \cup Actors,
     region_key : {Region, <<"p", "o", "l", "a", "n", "d">>},
     claimed_by : {NoClaimer, 0} \cup Actors]

\* the way the program writes a topic: "k=v" fields joined by " | "
\* (_create_ticket line 633, claim_ticket line 579)
EncodeTopic(fields) ==
    Join([i \in 1..Len(fields) |-> fields[i].k \o <<"=">> \o fields[i].v], <<" ", "|", " ">>)

\* the dict a sequence of parsed fields stands for: a later field replaces an
\* earlier one with the same key
DictOf(data) == [key \in {data[i].k : i \in 1..Len(data)} |-> DictGet(data, key)]

IdleCodec == [pc |-> "idle", kind |-> "none", in |-> <<>>, out |-> <<>>]

\* parse_topic applied to an encoded mapping
TopicRoundTrip ==
    /\ codec.pc = "input" /\ codec.kind = "topic"
    /\ codec' = [codec EXCEPT !.pc = "done",
                              !.out = DictOf(parse_topic(EncodeTopic(codec.in)))]
    /\ UNCHANGED <<muteVars, ticketVars, listingVars, env, message>>

\* parse_market_meta applied to the footer market_meta writes
MetaRoundTrip ==
    /\ codec.pc = "input" /\ codec.kind = "meta"
    /\ codec' = [codec EXCEPT !.pc = "done",
                              !.out = parse_market_meta(
                                  market_meta(codec.in.seller_id, codec.in.region_key,
                                              codec.in.claimed_by))]
    /\ UNCHANGED <<muteVars, ticketVars, listingVars, env, message>>

NextCodec == TopicRoundTrip \/ MetaRoundTrip

\* ------------------------------------------------------------- on_message
\* no message handled yet
NoMessage ==
    [pc |-> "idle", author |-> 0, bot |-> FALSE, channel |-> [area |-> "other", topic |-> <<>>],
     processed |-> FALSE, deleted |-> FALSE]

\* both settings present (lines 55 and 59), no message
InitMessageVars ==
    /\ env = [TICKET_CATEGORY_ID |-> TRUE, UNMUTE_CHANNEL_ID |-> TRUE]
    /\ message = NoMessage

\* the text channels a message can arrive in: the unmute channel and the
\* channels of the ticket category where these are set, and channels
\* elsewhere; a topic is empty or encodes an owner
MessageChannels ==
    {[area |-> a, topic |-> t] :
        a \in {"other"} \cup (IF env.UNMUTE_CHANNEL_ID THEN {"unmute"} ELSE {})
                       \cup (IF env.TICKET_CATEGORY_ID THEN {"ticket"} ELSE {}),
        t \in {<<>>} \cup {TicketTopic("Question", o) : o \in Members}}

\* on_message up to its first await (lines 1672-1700 and 1717): messages of
\* bots are dropped, messages of members without the sentinel, in the unmute
\* channel or in the author's own ticket channel go to process_commands, any
\* other message of a member holding the sentinel is to be deleted
OnMessage(author, bot, ch) ==
    /\ message.pc # "deleting"
    /\ UNCHANGED <<muteVars, ticketVars, listingVars, codec, env>>
    /\ LET m == [pc |-> "done", author |-> author, bot |-> bot, channel |-> ch,
                 processed |-> FALSE, deleted |-> FALSE]
           allowed == /\ TopicOwnerId(ch.topic) = author
                      /\ ~env.TICKET_CATEGORY_ID \/ ch.area = "ticket"
       IN  message' =
               IF bot THEN m
               ELSE IF ~(mutedRoleExists /\ MutedRole \in roles[author])
               THEN [m EXCEPT !.processed = TRUE]
               ELSE IF env.UNMUTE_CHANNEL_ID /\ ch.area = "unmute"
               THEN [m EXCEPT !.processed = TRUE]
               ELSE IF allowed THEN [m EXCEPT !.processed = TRUE]
               ELSE [m EXCEPT !.pc = "deleting"]

\* message.delete() has answered (lines 1698-1715): every failure is swallowed,
\* the message is not processed either way
OnMessageDeleteDone(res) ==
    /\ message.pc = "deleting"
    /\ UNCHANGED <<muteVars, ticketVars, listingVars, codec, env>>
    /\ message' = [message EXCEPT !.pc = "done", !.deleted = (res = "ok")]

\* the settings as the process was started with, and each member either not
\* muted or muted by a /mute without duration whose calls all succeeded
\* (/mute refuses to run without UNMUTE_CHANNEL_ID, line 1326)
InitMessage ==
    /\ InitTicketVars /\ InitListingVars /\ codec = IdleCodec
    /\ env \in [TICKET_CATEGORY_ID : BOOLEAN, UNMUTE_CHANNEL_ID : BOOLEAN]
    /\ message = NoMessage
    /\ serial = TRUE /\ now = 0 /\ guildPresent = TRUE
    /\ memberPresent = [m \in Members |-> TRUE]
    /\ cmd = [p \in Handlers |-> IdleCmd]
    /\ reply = NoReply
    /\ loop = IdleLoop
    /\ hist = [m \in Members |-> NoHist]
    /\ \E S \in SUBSET Members :
           LET Muted(w, m) ==
                   IF m \notin S THEN w
                   ELSE LET s == MuteSnapshot(w, m)
                        IN  MuteGrant(MuteRevoke(s.w, m, s.to_remove, "ok"), m, NoMinutes, 0, "ok")
               w == Muted(Muted([roles |-> InitialRoles, backup |-> {}, mutes |-> {}], 1), 12)
           IN  /\ S # {} => env.UNMUTE_CHANNEL_ID
               /\ mutedRoleExists = (S # {})
               /\ roles = w.roles /\ backup = w.backup /\ mutes = w.mutes

NextMessage ==
    \/ \E author \in Members, bot \in BOOLEAN, ch \in MessageChannels : OnMessage(author, bot, ch)
    \/ \E res \in CallResults : OnMessageDeleteDone(res)

\* ------------------------------------------------------------- specifications
\* the mute system with requests and sweeps one at a time
InitMuteSerial == InitMute(TRUE) /\ InitTicketVars /\ InitListingVars /\ codec = IdleCodec /\ InitMessageVars

\* the mute system with requests and sweeps interleaved
InitMuteConcurrent == InitMute(FALSE) /\ InitTicketVars /\ InitListingVars /\ codec = IdleCodec /\ InitMessageVars

SpecMute == InitMuteConcurrent /\ [][NextMute]_vars

SpecMuteSerial == InitMuteSerial /\ [][NextMute]_vars

SpecTicket == InitMuteSerial /\ [][NextTicket]_vars

SpecTicketSerial == InitMuteSerial /\ [][NextTicketSerial]_vars

SpecTicketStale == InitMuteSerial /\ [][NextTicketStale]_vars

\* the space as the bot finds it: no text channel named ticket-n, or one named
\* ticket-2 that was made by hand (no topic); guild.text_channels of line 416
\* has every text channel of the space; the hand-made channel has no manage
\* view (ticket_owner_id 0), so no button can be pressed in it
InitTicketNamed ==
    /\ InitMute(TRUE) /\ InitListingVars /\ codec = IdleCodec /\ InitMessageVars
    /\ channels \in {<<>>, <<[id |-> 1, no |-> 2, topic |-> <<>>, ticket_owner_id |-> 0]>>}
    /\ nextChannelId = Len(channels) + 1
    /\ tcmd = [p \in Handlers |-> IdleTicket]
    /\ treply = NoTReply

SpecTicketNamed == InitTicketNamed /\ [][NextTicketSerial]_vars

SpecListing == InitMuteSerial /\ [][NextListing]_vars

\* the message gate on its own
SpecMessage == InitMessage /\ [][NextMessage]_vars

\* the codecs on their own: an input drawn, then put through its round trip
InitCodec ==
    /\ InitMute(TRUE) /\ InitTicketVars /\ InitListingVars /\ InitMessageVars
    /\ codec \in {[pc |-> "input", kind |-> "topic", in |-> m, out |-> <<>>] : m \in FieldMappings}
                 \cup {[pc |-> "input", kind |-> "meta", in |-> a, out |-> <<>>] : a \in MetaArgs}

SpecCodec == InitCodec /\ [][NextCodec]_vars

\* ------------------------------------------------------------- claims: tickets, listings
\* C5: closed is terminal.  Once the listing's status field reads closed, no
\* step changes the status field or the footer, and no claim or contact
\* against the message succeeds.
C5_ClosedIsTerminal ==
    [][listing.emb.status = <<"closed">> =>
          /\ listing'.emb = listing.emb
          /\ lreply' # lreply => lreply'.outcome \notin {"claimed", "pinged"}]_vars

\* C6: no member is encoded as owner by two open ticket channels.
C6_OneTicketPerMember ==
    \A m \in Members : Cardinality(OwnedBy(channels, m)) <= 1

\* C7: an open request of a member who owns an open ticket channel is
\* answered as a duplicate, the answer names a channel that member owns, and
\* no channel is created or about to be created.
C7_DuplicateOpenRejected ==
    [][\A p \in Handlers, m \in Members, kind \in TicketKinds :
          (CreateTicketBegin(p, m, kind, TRUE) /\ OwnedBy(channels, m) # {}) =>
              /\ treply'.op = "open" /\ treply'.user = m /\ treply'.outcome = "duplicate"
              /\ \E i \in OwnedBy(channels, m) : channels[i].id = treply'.ref
              /\ UNCHANGED <<channels, nextChannelId>>
              /\ tcmd'[p].pc = "idle"]_vars

\* ------------------------------------------------------------- claims: mute lifecycle
MuteRows(table, m) == {r \in table : r.user_id = m}

\* a step of auto_unmute_loop
LoopStep ==
    \/ \E order \in Perms({r \in mutes : r.unmute_at # NULL}) : SweepBegin(order)
    \/ \E res \in CallResults : LoopRevokeDone(res) \/ LoopAddDone(res) \/ LoopLogDone(res)

\* the time the sweep in progress (or starting in this step) compares against
SweepTime == IF loop.pc = "idle" THEN now ELSE loop.now

\* the row has a concrete expiry that a sweep at time t has reached
ExpiredAt(r, t) ==
    r.unmute_at # NULL /\ fromisoformat(r.unmute_at).ok /\ t >= fromisoformat(r.unmute_at).t

\* C1: snapshot fidelity.  After a mute whose calls all succeeded the member
\* holds exactly the sentinel and the grants held before that the bot cannot
\* revoke; after a following unmute whose calls all succeeded the member holds
\* exactly the grants held before the mute, and not the sentinel.
C1_SnapshotFidelity ==
    \A m \in Members :
        /\ hist[m].tag = "muted" =>
               roles[m] = {DefaultRole, MutedRole}
                              \cup {r \in hist[m].orig : ~can_bot_manage_role(r)}
        /\ hist[m].tag = "unmuted" => roles[m] = {DefaultRole} \cup hist[m].orig

C1_Witness ==
    /\ hist[1].tag = "unmuted" /\ hist[1].orig = {RoleA, RoleB, RoleC}
    /\ roles[1] = {DefaultRole, RoleA, RoleB, RoleC}

\* C2: expiry correctness.  A sweep that ends leaves no Mute Record whose
\* expiry it had reached; a Mute Record a sweep deletes had its expiry reached
\* and its member no longer holds the sentinel; a sweep removes the sentinel
\* only from a member whose Mute Record's expiry it had reached.
C2_ExpiryCorrect ==
    [][LoopStep =>
          /\ loop'.pc = "idle" => \A r \in mutes' : ~ExpiredAt(r, SweepTime)
          /\ \A r \in mutes \ mutes' :
                 ExpiredAt(r, SweepTime) /\ MutedRole \notin roles'[r.user_id]
          /\ \A m \in Members :
                 (MutedRole \in roles[m] /\ MutedRole \notin roles'[m]) =>
                     \E r \in MuteRows(mutes, m) : ExpiredAt(r, SweepTime)]_vars

\* C3: manual unmute and the loop's unmute end in the same grants, the same
\* snapshot table and the same mutes table when started from the same state
\* (a resolvable member with an expired Mute Record) with the same answers.
C3_UnmuteTriggersAgree ==
    \A m \in Members : \A rr, ra \in CallResults :
        (AllIdle /\ guildPresent /\ memberPresent[m]
                 /\ \E r \in MuteRows(mutes, m) : ExpiredAt(r, now))
            => ManualUnmuteRun(World, m, rr, ra) = AutoUnmuteRun(World, m, rr, ra)

\* C4: when the sentinel revoke fails, in /unmute or in the loop, the step
\* changes neither the grants nor the snapshot table nor the mutes table.
C4_FailedRevokeAborts ==
    [][\A res \in {"forbidden", "error"} :
          ((\E p \in Handlers : UnmuteRevokeDone(p, res)) \/ LoopRevokeDone(res))
              => UNCHANGED <<roles, backup, mutes>>]_vars

\* C8: mute idempotency.  /mute on a member who holds the sentinel answers
\* already-muted and changes no grant, snapshot or Mute Record; a /mute that
\* succeeds leaves the sentinel held and exactly one Mute Record; no step
\* leaves a member with two Mute Records.
C8_MuteIdempotent ==
    [][/\ \A m \in Members : Cardinality(MuteRows(mutes', m)) <= 1
       /\ \A p \in Handlers, m \in Members, minuten \in MinutesInputs :
             /\ (MuteBegin(p, m, minuten, TRUE) /\ MutedRole \in roles[m]) =>
                    /\ reply' = Reply("mute", m, "already_muted")
                    /\ UNCHANGED <<roles, backup, mutes, cmd>>
             /\ MuteGrantDone(p, "ok") /\ cmd[p].user = m =>
                    /\ MutedRole \in roles'[m]
                    /\ Cardinality(MuteRows(mutes', m)) = 1]_vars

C8_Witness ==
    /\ reply = Reply("mute", 1, "already_muted")
    /\ MutedRole \in roles[1]
    /\ Cardinality(MuteRows(mutes, 1)) = 1

\* C9: unmute idempotency.  /unmute on a member who does not hold the
\* sentinel answers not-muted and changes neither table (nor any grant).
C9_UnmuteNoop ==
    [][\A p \in Handlers, m \in Members :
          (UnmuteBegin(p, m) /\ MutedRole \notin roles[m]) =>
              /\ reply' = Reply("unmute", m, "not_muted")
              /\ UNCHANGED <<roles, backup, mutes, cmd>>]_vars

C9_Witness ==
    /\ reply = Reply("unmute", 1, "not_muted")
    /\ MutedRole \notin roles[1]
    /\ \E r \in backup : r.user_id = 1

\* C10: a sweep that ends leaves no Mute Record whose expiry it had reached
\* and whose guild or member cannot be resolved.
C10_StaleRowsDeleted ==
    [][(LoopStep /\ loop'.pc = "idle") =>
          \A r \in mutes' :
              ExpiredAt(r, SweepTime) => (guildPresent /\ memberPresent[r.user_id])]_vars

\* C11: a failure while one record is processed neither stops the task nor
\* ends the sweep early: no step of the loop stops the task, and a step that
\* ends a sweep leaves no Mute Record of a resolvable guild whose expiry the
\* sweep had reached.
C11_SweepContinues ==
    [][LoopStep =>
          /\ loop'.pc # "stopped"
          /\ (loop'.pc \in {"idle", "stopped"} /\ guildPresent) =>
                 \A r \in mutes' : ~ExpiredAt(r, SweepTime)]_vars

\* C12: when the grant of the sentinel fails in /mute, the invocation ends
\* with an error answer, the mutes table is left as it was, and the snapshot
\* row written earlier in the same /mute is still in the snapshot table.
C12_GrantFailureAborts ==
    [][\A p \in Handlers, res \in {"forbidden", "error"} :
          MuteGrantDone(p, res) =>
              /\ reply'.op = "mute" /\ reply'.user = cmd[p].user
              /\ reply'.outcome \in {"forbidden", "crashed"}
              /\ mutes' = mutes
              /\ MutedRole \notin roles'[cmd[p].user]
              /\ backup' = backup
              /\ \E r \in backup' :
                     r.user_id = cmd[p].user
                         /\ SeqRange(_deserialize_role_ids(r.role_ids)) = cmd[p].pre]_vars

C12_Witness ==
    /\ reply = Reply("mute", 1, "forbidden")
    /\ MuteRows(mutes, 1) = {}
    /\ MutedRole \notin roles[1]
    /\ \E r \in backup :
           r.user_id = 1 /\ SeqRange(_deserialize_role_ids(r.role_ids)) = GrantRoles


\* ------------------------------------------------------------- claims: second group
\* the claimant a ticket channel's topic encodes (claim_ticket, lines 566-567)
TicketClaimant(topic) ==
    DictGet(parse_topic(topic), <<"c", "l", "a", "i", "m", "e", "d", "_", "b", "y">>)

\* C13, as amended: while a ticket channel exists, the claimant its topic
\* encodes never goes back to "none"; it changes only by the applied edit of a
\* claim, to the identifier of that claim's actor, who is staff and whose claim
\* found the ticket unclaimed when it was pressed.  (Two such claims may
\* interleave, and then the later edit replaces the first actor's identifier.)
C13_ClaimantSetOnlyByClaim ==
    [][/\ channels' # channels =>
             \A i \in 1..Len(channels), j \in 1..Len(channels') :
                 (channels[i].id = channels'[j].id
                     /\ TicketClaimant(channels'[j].topic) # TicketClaimant(channels[i].topic)) =>
                         /\ isdigit(TicketClaimant(channels'[j].topic))
                         /\ \E p \in Handlers :
                                /\ tcmd[p].pc = "t_edit" /\ tcmd'[p].pc = "idle"
                                /\ tcmd[p].ch = channels[i].id
                                /\ is_staff(tcmd[p].user)
                                /\ TicketClaimant(channels'[j].topic) = Str(tcmd[p].user)
       /\ \A p \in Handlers :
             (tcmd[p].pc = "idle" /\ tcmd'[p].pc = "t_edit") =>
                 /\ is_staff(tcmd'[p].user)
                 /\ \E i \in ChannelIndex(tcmd'[p].ch) :
                        TicketClaimant(channels[i].topic) = <<"n", "o", "n", "e">>]_vars

\* mid-race: Staff's claim of channel 1 has been applied while Admin's claim of
\* the same channel, pressed while it was unclaimed, awaits its edit
C13_Witness ==
    /\ Len(channels) >= 1 /\ channels[1].id = 1
    /\ TicketClaimant(channels[1].topic) = Str(Staff)
    /\ \E p \in Handlers :
           tcmd[p].pc = "t_edit" /\ tcmd[p].ch = 1 /\ tcmd[p].user = Admin

\* C13, as stated: while a ticket channel exists, the claimant its topic
\* encodes changes only from "none" to a concrete member identifier: never
\* back to "none" and never from one identifier to another.
C13_ClaimantMonotone ==
    [][\A i \in 1..Len(channels), j \in 1..Len(channels') :
          (channels[i].id = channels'[j].id
              /\ TicketClaimant(channels'[j].topic) # TicketClaimant(channels[i].topic)) =>
                  /\ TicketClaimant(channels[i].topic) = <<"n", "o", "n", "e">>
                  /\ isdigit(TicketClaimant(channels'[j].topic))]_vars


\* the sidecar of the listing message as it is / as a handler will write it
ListingMeta == parse_market_meta(listing.emb.footer)

\* handler p passed claim's unclaimed check and its edit is outstanding while
\* another claim on the same listing either is outstanding too or has been
\* applied since p's check
ClaimRace(p) ==
    /\ lcmd[p].pc = "c_edit"
    /\ \/ \E q \in Handlers \ {p} : lcmd[q].pc = "c_edit" /\ lcmd[q].user # lcmd[p].user
       \/ ListingMeta.claimed_by \notin {0, lcmd[p].user}

\* C14: listing claim race.  When two claims on the same unclaimed listing
\* both passed the unclaimed check, each edit that is applied is answered as
\* claimed, leaves the footer's claimant and the status field naming the actor
\* of that edit (so the last applied edit wins), and leaves seller and region
\* as they were; an edit that fails leaves the listing as it was.
C14_ClaimRaceLastWriterWins ==
    [][\A p \in Handlers, res \in CallResults :
          (ClaimRace(p) /\ ClaimEditDone(p, res)) =>
              IF res = "ok"
              THEN /\ lreply' = LReply("claim", lcmd[p].user, "claimed")
                   /\ parse_market_meta(listing'.emb.footer).claimed_by = lcmd[p].user
                   /\ listing'.emb.status = <<"claimed", lcmd[p].user>>
                   /\ parse_market_meta(listing'.emb.footer).seller_id = ListingMeta.seller_id
                   /\ parse_market_meta(listing'.emb.footer).region = ListingMeta.region
                   /\ listing'.disabled = listing.disabled
              ELSE listing' = listing]_vars

\* mid-race: member 12's edit has been applied to seller 1's listing while
\* Admin's claim, which passed the unclaimed check before, is still outstanding
C14_Witness ==
    /\ ListingMeta = [seller_id |-> 1, region |-> Region, claimed_by |-> 12]
    /\ lreply = LReply("claim", 12, "claimed")
    /\ \E p \in Handlers : ClaimRace(p) /\ lcmd[p].user = Admin


\* C15: a listing claim by the seller, by an actor without the region's
\* allowed role, or on a listing whose decoded claimant is not 0 is answered
\* as rejected and changes nothing; any other claim goes on to an edit that
\* writes the actor as claimant, and only such an edit changes the listing.
\* (The first conjunct of each antecedent follows from the action on every
\* step that changes the state and only narrows the steps looked at.)
C15_ClaimGuards ==
    [][/\ \A p \in Handlers, u \in Actors :
             (/\ lcmd'[p].pc = "c_edit" \/ (lreply' # lreply /\ lreply'.user = u)
              /\ ClaimClick(p, u)) =>
                 LET meta == ListingMeta
                 IN  IF u = meta.seller_id \/ ~has_role(u) \/ meta.claimed_by # 0
                     THEN /\ lreply'.op = "claim" /\ lreply'.user = u
                          /\ lreply'.outcome \in {"is_seller", "no_role", "already_claimed"}
                          /\ listing' = listing
                          /\ lcmd'[p] = IdleListing
                     ELSE /\ lcmd'[p].pc = "c_edit" /\ lcmd'[p].user = u
                          /\ parse_market_meta(lcmd'[p].emb.footer) =
                                 [meta EXCEPT !.claimed_by = u]
                          /\ listing' = listing
       /\ \A p \in Handlers, res \in CallResults :
             (listing' # listing /\ ClaimEditDone(p, res)) =>
                 LET meta == ListingMeta
                 IN  /\ has_role(lcmd[p].user)
                     /\ lcmd[p].user # meta.seller_id
                     /\ parse_market_meta(listing'.emb.footer) =
                            [meta EXCEPT !.claimed_by = lcmd[p].user]]_vars

\* member 12 has claimed seller 1's listing, and Admin's later claim was
\* answered as already claimed
C15_Witness ==
    /\ ListingMeta = [seller_id |-> 1, region |-> Region, claimed_by |-> 12]
    /\ listing.emb.status = <<"claimed", 12>>
    /\ lreply = LReply("claim", Admin, "already_claimed")


\* C16: a listing contact by the seller is answered as rejected; a contact by
\* anyone else goes on to its sends, and when the ping and the log post both
\* succeed it is answered as pinged and logged; no step of contact changes the
\* listing message (status field, footer, buttons).  (The first conjunct of
\* each antecedent follows from the action on every step that changes the
\* state and only narrows the steps looked at.)
C16_ContactFrame ==
    [][/\ \A p \in Handlers, u \in Actors :
             (/\ lcmd'[p].pc = "k_send" \/ (lreply' # lreply /\ lreply'.user = u)
              /\ ContactClick(p, u)) =>
                 /\ listing' = listing
                 /\ IF u = ListingMeta.seller_id
                    THEN lreply' = LReply("contact", u, "is_seller") /\ lcmd'[p] = IdleListing
                    ELSE lcmd'[p].pc = "k_send" /\ lcmd'[p].user = u /\ lreply' = lreply
       /\ \A p \in Handlers, res \in CallResults, log_res \in CallResults :
             (lcmd[p].pc = "k_send" /\ ContactSendDone(p, res, log_res)) =>
                 /\ listing' = listing
                 /\ lcmd[p].user # parse_market_meta(lcmd[p].emb.footer).seller_id
                 /\ (res = "ok" /\ log_res = "ok") =>
                        lreply' = ContactReply(lcmd[p].user, "pinged", TRUE)
                 /\ lreply'.outcome = "pinged" => res = "ok"]_vars

\* member 12's contact on seller 1's open listing was pinged and logged, and
\* the listing is as it was posted
C16_Witness ==
    /\ lreply = ContactReply(12, "pinged", TRUE)
    /\ listing = [exists |-> TRUE,
                  emb |-> [status |-> <<"open">>, footer |-> market_meta(1, Region, NoClaimer)],
                  disabled |-> FALSE]


\* C17: a listing close by an actor who is neither the seller the footer
\* encodes nor market staff of the region is answered as rejected and changes
\* nothing; any other close goes on to its edit, and only the edit of such an
\* actor changes the listing, to status closed with the buttons disabled.
\* (The first conjunct of each antecedent follows from the action on every
\* step that changes the state and only narrows the steps looked at.)
C17_CloseGuard ==
    [][/\ \A p \in Handlers, u \in Actors :
             (/\ lcmd'[p].pc = "x_edit" \/ (lreply' # lreply /\ lreply'.user = u)
              /\ CloseClick(p, u)) =>
                 /\ listing' = listing
                 /\ IF u = ListingMeta.seller_id \/ is_market_staff(u)
                    THEN lcmd'[p].pc = "x_edit" /\ lcmd'[p].user = u /\ lreply' = lreply
                    ELSE lreply' = LReply("close", u, "not_allowed") /\ lcmd'[p] = IdleListing
       /\ \A p \in Handlers, res \in CallResults :
             (listing' # listing /\ CloseEditDone(p, res)) =>
                 /\ lcmd[p].user = ListingMeta.seller_id \/ is_market_staff(lcmd[p].user)
                 /\ listing'.emb.status = <<"closed">>
                 /\ listing'.disabled]_vars

\* member 12, neither seller nor staff, was refused the close of seller 1's
\* listing, which is still open with its buttons enabled
C17_Witness ==
    /\ lreply = LReply("close", 12, "not_allowed")
    /\ listing = [exists |-> TRUE,
                  emb |-> [status |-> <<"open">>, footer |-> market_meta(1, Region, NoClaimer)],
                  disabled |-> FALSE]
    /\ \A p \in Handlers : lcmd[p].pc = "idle"


\* C18: a listing is posted only for a member who holds the region's allowed
\* role; the posted message's footer decodes to seller = that member, region =
\* the requested region, claimant = 0, its status field reads open and its
\* three buttons are enabled.  A member without the role is refused and
\* nothing is posted.
C18_PostListing ==
    [][\A m \in Actors, res \in CallResults :
          ((lreply' # lreply \/ listing' # listing) /\ PostListing(m, res)) =>
              IF has_role(m) /\ res = "ok"
              THEN /\ listing'.exists
                   /\ parse_market_meta(listing'.emb.footer) =
                          [seller_id |-> m, region |-> Region, claimed_by |-> 0]
                   /\ listing'.emb.status = <<"open">>
                   /\ ~listing'.disabled
                   /\ lreply' = LReply("post", m, "posted")
              ELSE /\ listing' = listing
                   /\ lreply' = LReply("post", m, IF has_role(m) THEN "crashed" ELSE "no_role")]_vars

\* Admin, who holds the allowed role, has posted a listing, and nobody has
\* pressed one of its buttons yet
C18_Witness ==
    /\ lreply = LReply("post", Admin, "posted")
    /\ listing.exists /\ ~listing.disabled
    /\ listing.emb.status = <<"open">>
    /\ ListingMeta = [seller_id |-> Admin, region |-> Region, claimed_by |-> 0]
    /\ \A p \in Handlers : lcmd[p].pc = "idle"


Unpadded(fields) ==
    \A i \in 1..Len(fields) : Strip(fields[i].k) = fields[i].k /\ Strip(fields[i].v) = fields[i].v

\* what parse_market_meta has to give back for market_meta's arguments
MetaExpected(a) ==
    [seller_id |-> a.seller_id, region |-> a.region_key,
     claimed_by |-> IF a.claimed_by = NoClaimer THEN 0 ELSE a.claimed_by]

\* C20, as amended: codec round trip.  Decoding the encoded text of a mapping
\* whose keys and values contain no "|", no "=" and no leading or trailing
\* blank yields the same mapping; parse_market_meta(market_meta(seller,
\* region, claimant)) gives back the same seller, region and claimant, an
\* absent claimant being read back as 0.
C20_RoundTripUnpadded ==
    codec.pc = "done" =>
        /\ (codec.kind = "topic" /\ Unpadded(codec.in)) => codec.out = DictOf(codec.in)
        /\ codec.kind = "meta" => codec.out = MetaExpected(codec.in)

\* a mapping of two fields, one of them with an empty value, has come back
\* from its round trip as it went in
C20_Witness ==
    /\ codec.pc = "done" /\ codec.kind = "topic"
    /\ codec.in = <<[k |-> <<"a">>, v |-> <<"a", "a">>], [k |-> <<"b">>, v |-> <<>>]>>
    /\ codec.out = DictOf(codec.in)

\* C20, as stated: codec round trip.  Decoding the encoded text of any mapping
\* whose keys and values contain no "|" and no "=" yields the same mapping;
\* parse_market_meta(market_meta(seller, region, claimant)) gives back the
\* same seller, region and claimant, an absent claimant being read back as 0.
C20_RoundTrip ==
    codec.pc = "done" =>
        /\ codec.kind = "topic" => codec.out = DictOf(codec.in)
        /\ codec.kind = "meta" => codec.out = MetaExpected(codec.in)

\* ------------------------------------------------------------ third group
\* C21: every lifecycle operation gives its requester a terminal response on
\* every path: no handler of mute, unmute, ticket open/claim/close or listing
\* open/contact/claim/close ends by an exception that leaves the requester
\* without the answer of the operation (outcome "crashed")
C21_TerminalResponse ==
    /\ reply.outcome # "crashed"
    /\ treply.outcome # "crashed"
    /\ lreply.outcome # "crashed"


\* C22: while the batched revoke of a /mute is in flight (issued and not yet
\* answered), the snapshot table already holds the member's row, and the row
\* lists every grant the member holds other than the default one.
C22_SnapshotBeforeRevoke ==
    \A p \in Handlers :
        cmd[p].pc = "m_revoke" =>
            \E r \in backup :
                /\ r.user_id = cmd[p].user
                /\ SeqRange(_deserialize_role_ids(r.role_ids)) =
                       {x \in roles[cmd[p].user] : ~is_default(x)}

C22_Witness ==
    /\ cmd[1].pc = "m_revoke" /\ cmd[1].user = 1
    /\ cmd[1].to_remove = {RoleA, RoleB}
    /\ \E r \in backup :
           r.user_id = 1 /\ SeqRange(_deserialize_role_ids(r.role_ids)) = GrantRoles


\* the snapshot rows of member m
SnapshotRows(table, m) == {r \in table : r.user_id = m}

\* C23: with a manual unmute and the loop's unmute of one member in flight
\* together, the snapshot row is read and deleted in one step by whichever
\* sentinel revoke answers first: that step leaves no row for the member, and
\* the revoke that answers after it finds no row and re-grants nothing (unless
\* a /mute has written a new row for the member in between).
C23_SnapshotConsumedOnce ==
    [][/\ \A p \in Handlers :
              (cmd[p].pc = "u_revoke" /\ UnmuteRevokeDone(p, "ok")) =>
                  /\ SnapshotRows(backup', cmd[p].user) = {}
                  /\ SnapshotRows(backup, cmd[p].user) = {} => cmd'[p].pc # "u_add"
       /\ (loop.pc = "l_revoke" /\ LoopRevokeDone("ok")) =>
              /\ SnapshotRows(backup', Head(loop.rows).user_id) = {}
              /\ SnapshotRows(backup, Head(loop.rows).user_id) = {} => loop'.pc # "l_add"]_vars

\* the manual unmute took the snapshot; the loop's revoke of the same member
\* answered after that and found none
C23_Witness ==
    /\ cmd[1].pc = "u_add" /\ cmd[1].user = 1 /\ cmd[1].to_add = {RoleA, RoleB}
    /\ loop.pc = "l_log" /\ Head(loop.rows).user_id = 1
    /\ SnapshotRows(backup, 1) = {}


\* C24: when the process stops while a /mute is in flight after its snapshot
\* was written, the grants the member held before the mute stay recoverable: a
\* later manual unmute, or a later sweep over the member's Mute Record, whose
\* calls all succeed leaves the member holding them.
C24_StopRecoverable ==
    [][\A p \in Handlers :
          (cmd[p].pc \in {"m_revoke", "m_grant"} /\ ProcessStop) =>
              LET m == cmd[p].user
                  w == [roles |-> roles', backup |-> backup', mutes |-> mutes']
                  held == {DefaultRole} \cup cmd[p].pre
              IN  \/ held \subseteq ManualUnmuteRun(w, m, "ok", "ok").roles[m]
                  \/ /\ MuteRows(w.mutes, m) # {}
                     /\ held \subseteq AutoUnmuteRun(w, m, "ok", "ok").roles[m]]_vars


\* C25: ticket claim race.  When the edit of a claim is applied while another
\* actor's claim on the same ticket has passed the claimant check too (its
\* edit is outstanding, or was applied since this claim's check), the actor
\* is answered as having claimed and the channel's topic then encodes that
\* actor as claimant: both actors are told success and the edit applied last
\* decides the claimant.
C25_TicketClaimRace ==
    [][\A p \in Handlers :
          (/\ tcmd[p].pc = "t_edit"
           /\ \/ \E q \in Handlers \ {p} :
                     /\ tcmd[q].pc = "t_edit" /\ tcmd[q].ch = tcmd[p].ch
                     /\ tcmd[q].user # tcmd[p].user
              \/ \E i \in 1..Len(channels) :
                     /\ channels[i].id = tcmd[p].ch
                     /\ TicketClaimant(channels[i].topic)
                            \notin {<<"n", "o", "n", "e">>, Str(tcmd[p].user)}
           /\ ClaimTicketEditDone(p, "ok")) =>
              /\ treply' = TReply("claim", tcmd[p].user, "claimed", tcmd[p].ch)
              /\ \E j \in 1..Len(channels') :
                     /\ channels'[j].id = tcmd[p].ch
                     /\ TicketClaimant(channels'[j].topic) = Str(tcmd[p].user)]_vars

\* mid-race: Admin's edit was applied and answered as claimed while Staff's
\* claim, which passed the claimant check before that, is still outstanding
C25_Witness ==
    /\ Len(channels) >= 1 /\ channels[1].id = 1
    /\ TicketClaimant(channels[1].topic) = Str(Admin)
    /\ treply = TReply("claim", Admin, "claimed", 1)
    /\ \E p \in Handlers :
           tcmd[p].pc = "t_edit" /\ tcmd[p].ch = 1 /\ tcmd[p].user = Staff


\* C26: a ticket claim pressed on a channel whose topic encodes a concrete
\* claimant (a value that is neither missing, empty nor "none") ends at once,
\* leaves the channel list and every topic as they were and starts no edit; a
\* staff actor is answered already-claimed (an actor who is not staff was
\* turned away by the staff check before the topic is read).
C26_ClaimedTicketRejects ==
    [][\A p \in Handlers, u \in Actors, c \in 1..MaxChannels :
          (/\ tcmd[p].pc = "idle" /\ c <= Len(channels)
           /\ TicketClaimant(channels[c].topic) \notin {NULL, <<>>, <<"n", "o", "n", "e">>}
           /\ ClaimTicketBegin(p, u, c)) =>
              /\ channels' = channels
              /\ tcmd'[p] = IdleTicket
              /\ treply' = TReply("claim", u,
                                  IF is_staff(u) THEN "already_claimed" ELSE "not_staff",
                                  channels[c].id)]_vars

C26_Witness ==
    /\ Len(channels) >= 1 /\ channels[1].id = 1
    /\ TicketClaimant(channels[1].topic) = Str(Staff)
    /\ treply = TReply("claim", Admin, "already_claimed", 1)


\* C27: a ticket open request is answered as a duplicate only when some
\* channel of the ticket category has a topic whose decoded owner is the
\* requesting member.
C27_DuplicateOnlyForOwner ==
    [][\A p \in Handlers, m \in Members, kind \in TicketKinds :
          (/\ tcmd[p].pc = "idle"
           /\ CreateTicketBegin(p, m, kind, TRUE)
           /\ treply' # NoTReply /\ treply'.outcome = "duplicate") =>
              OwnedBy(channels, m) # {}]_vars


\* C28, as amended: in every state of an existing listing, also those reached
\* by interleaved claim and close clicks, a status field that names actor X as
\* claimant goes with a footer whose claimant is X, and a footer whose
\* claimant is an actor X goes with a status field that names X or reads
\* closed (close keeps the claimant in the footer).
C28_StatusMatchesClaimant ==
    listing.exists =>
        LET meta == ListingMeta
        IN  /\ \A X \in Actors :
                   listing.emb.status = <<"claimed", X>> => meta.claimed_by = X
            /\ meta.claimed_by # 0 =>
                   \/ listing.emb.status = <<"claimed", meta.claimed_by>>
                   \/ listing.emb.status = <<"closed">>

\* a claim whose check passed before the close was applied has been applied
\* after it: the buttons are disabled, status and footer name member 12
C28_Witness ==
    /\ listing.exists /\ listing.disabled
    /\ listing.emb.status = <<"claimed", 12>>
    /\ ListingMeta.claimed_by = 12

\* C28, as stated: in every state of an existing listing the status field
\* names actor X as claimant exactly when the footer's claimant is X.
C28_StatusIffClaimant ==
    listing.exists =>
        \A X \in Actors :
            (listing.emb.status = <<"claimed", X>>) <=> (ListingMeta.claimed_by = X)


\* C29: a ticket handler that reads a topic missing a field it expects ends
\* at once without writing: a claim pressed on a topic without a claimed_by
\* field starts no edit, and a close on a topic without a user_id field
\* deletes nothing.
C29_StaleRejected ==
    [][\A p \in Handlers, u \in Actors, c \in 1..MaxChannels :
          /\ (/\ tcmd[p].pc = "idle" /\ c <= Len(channels)
              /\ TicketClaimant(channels[c].topic) = NULL
              /\ ClaimTicketBegin(p, u, c)) =>
                 tcmd'[p] = IdleTicket /\ channels' = channels
          /\ (/\ tcmd[p].pc = "idle" /\ c <= Len(channels)
              /\ DictGet(parse_topic(channels[c].topic), <<"u", "s", "e", "r", "_", "i", "d">>) = NULL
              /\ TicketCloseBegin(p, u, c)) =>
                 tcmd'[p] = IdleTicket /\ channels' = channels]_vars


\* C30, as amended: ticket close runs in this order in every execution.  The
\* checks and the acknowledgement come first and touch no channel; the
\* transcript and send_log come next, and the handler goes on to the delay
\* and the delete only when send_log has returned, having posted the
\* transcript or dropped it (no log channel, or the post forbidden); a channel
\* leaves the category only by the delete of a handler that is past all that,
\* and it is that handler's channel.
C30_DeleteAfterLogStep ==
    [][/\ \A p \in Handlers :
              /\ (tcmd'[p].pc = "t_log" /\ tcmd[p].pc # "t_log") =>
                     tcmd[p].pc = "idle" /\ channels' = channels
              /\ (tcmd'[p].pc = "t_delete" /\ tcmd[p].pc # "t_delete") =>
                     /\ tcmd[p].pc = "t_log"
                     /\ tcmd'[p].logged \in {"posted", "dropped"}
                     /\ channels' = channels
       /\ Len(channels') < Len(channels) =>
              \E p \in Handlers :
                  /\ tcmd[p].pc = "t_delete" /\ tcmd[p].logged \in {"posted", "dropped"}
                  /\ tcmd'[p] = IdleTicket
                  /\ channels' = WithoutChannel(channels, tcmd[p].ch)]_vars

\* Staff has closed the only ticket: the channel is gone
C30_Witness ==
    /\ treply = TReply("close", Staff, "closed", 1)
    /\ channels = <<>>
    /\ \A p \in Handlers : tcmd[p].pc = "idle"

\* C30, as stated: a channel is deleted only by a close whose transcript was
\* handed to the log before.
C30_DeleteAfterTranscriptLogged ==
    [][Len(channels') < Len(channels) =>
           \E p \in Handlers :
               /\ tcmd[p].pc = "t_delete" /\ tcmd[p].logged = "posted"
               /\ tcmd'[p] = IdleTicket]_vars


\* ------------------------------------------------------------ fourth group
\* C31: a failure of the batched revoke of a /mute is not fatal: whatever the
\* failure, the invocation goes on to the grant of the sentinel (after which
\* the Mute Record is written), no grant has been revoked, and the snapshot
\* row still lists every grant the member held.
C31_RevokeFailureNonFatal ==
    [][\A p \in Handlers, res \in {"forbidden", "error"} :
          (cmd[p].pc = "m_revoke" /\ MuteRevokeDone(p, res)) =>
              /\ cmd'[p].pc = "m_grant" /\ cmd'[p].user = cmd[p].user
              /\ roles' = roles
              /\ \E r \in backup' :
                     /\ r.user_id = cmd[p].user
                     /\ SeqRange(_deserialize_role_ids(r.role_ids)) = cmd[p].pre]_vars


\* C32: a /mute without a duration, or with a duration of zero or less, that
\* succeeds leaves the member's Mute Record with no expiry; and no step of the
\* expiry loop deletes a Mute Record that has no expiry or takes the sentinel
\* from the member of such a record.
C32_IndefiniteMuteStays ==
    [][/\ \A p \in Handlers :
              (/\ cmd[p].pc = "m_grant"
               /\ ~(cmd[p].minuten # NoMinutes /\ cmd[p].minuten > 0)
               /\ MuteGrantDone(p, "ok")) =>
                  MuteRows(mutes', cmd[p].user) =
                      {[user_id |-> cmd[p].user, unmute_at |-> NULL]}
       /\ LoopStep =>
              \A m \in Members :
                  [user_id |-> m, unmute_at |-> NULL] \in mutes =>
                      /\ [user_id |-> m, unmute_at |-> NULL] \in mutes'
                      /\ MutedRole \in roles[m] => MutedRole \in roles'[m]]_vars


\* ------------------------------------------------------------- claims: fourth group, tickets
\* C33: ticket open names the new channel ticket-n with n the smallest
\* positive integer that no existing text channel has in its name at the time
\* of the check, and the channel is created under that name.
C33_SmallestFreeNumber ==
    [][\A p \in Handlers :
          /\ (tcmd[p].pc = "idle" /\ tcmd'[p].pc = "t_create") =>
                 LET taken == {channels[i].no : i \in 1..Len(channels)}
                     n == tcmd'[p].no
                 IN  /\ n >= 1
                     /\ n \notin taken
                     /\ \A k \in 1..(n - 1) : k \in taken
          /\ (tcmd[p].pc = "t_create" /\ Len(channels') = Len(channels) + 1) =>
                 channels'[Len(channels')].no = tcmd[p].no]_vars

\* a ticket is being created as ticket-1 while ticket-2 exists
C33_Witness ==
    \E p \in Handlers :
        /\ tcmd[p].pc = "t_create" /\ tcmd[p].no = 1
        /\ \E i \in 1..Len(channels) : channels[i].no = 2


\* ------------------------------------------------------------- claims: fourth group, mute
\* the grants of member m that a mute revoked and that are not re-granted: the
\* model changes a member's grants by the bot's calls only
RevokedGrants(m) == (InitialRoles[m] \ {DefaultRole}) \ roles[m]

\* the grants listed in member m's snapshot rows, and those an unmute has read
\* from the row and is about to re-grant
ListedGrants(m) ==
    UNION {SeqRange(_deserialize_role_ids(r.role_ids)) : r \in SnapshotRows(backup, m)}
        \cup UNION {cmd[p].to_add : p \in {q \in Handlers : cmd[q].pc = "u_add" /\ cmd[q].user = m}}
        \cup (IF loop.pc = "l_add" /\ Head(loop.rows).user_id = m THEN loop.to_add ELSE {})

\* C34: whatever the remote calls of mute and unmute answer, as long as the
\* process does not stop, every grant that a mute revoked from a member and
\* that has not been re-granted stays listed in the member's snapshot (or in
\* the hands of the unmute that is re-granting it): no step of a mute or an
\* unmute loses a pre-mute grant.
C34_RevokedGrantsListed ==
    [][\A m \in Members :
          (/\ RevokedGrants(m) \subseteq ListedGrants(m)
           /\ memberPresent'[m] /\ guildPresent'
           /\ ~ProcessStop) =>
              RevokedGrants(m)' \subseteq ListedGrants(m)']_vars


\* C35: two mutes of one member interleaved.  When a second /mute passes the
\* sentinel check and saves its snapshot while the first is between its revoke
\* call and its sentinel grant, the snapshot left still lists the grants the
\* member held before the first mute started.
C35_InterleavedMuteKeepsGrants ==
    [][\A p \in Handlers, q \in Handlers :
          (/\ p # q
           /\ cmd[q].pc = "m_grant"
           /\ cmd[p].pc = "idle" /\ cmd'[p].pc \in {"m_revoke", "m_grant"}
           /\ cmd'[p].user = cmd[q].user) =>
              cmd[q].pre \subseteq ListedGrants(cmd[q].user)']_vars


\* C36: after a successful timed mute, as long as the member holds the sentinel
\* the Mute Record with that mute's expiry exists: the record of a member who
\* holds the sentinel before and after a step stays through every step of a
\* handler other than a /mute writing its own record, also through the last
\* step of an unmute of an earlier mute that was between its sentinel revoke
\* and its delete while the new mute ran.
C36_RecordWhileSentinel ==
    [][\A r \in mutes :
          (/\ r.unmute_at # NULL
           /\ MutedRole \in roles[r.user_id] /\ MutedRole \in roles'[r.user_id]
           /\ ~LoopStep /\ ~ProcessStop
           /\ ~\E p \in Handlers : cmd[p].pc = "m_grant" /\ cmd'[p].pc = "idle") =>
              r \in mutes']_vars

\* C37: the Expiry Loop never removes the sentinel or deletes the Mute Record
\* of a member whose current Mute Record has an expiry in the future, also when
\* the record was replaced after the sweep read its rows and before it
\* processed the member.
C37_SweepSparesFutureExpiry ==
    [][\A r \in mutes :
          (/\ r.unmute_at # NULL
           /\ fromisoformat(r.unmute_at).ok /\ fromisoformat(r.unmute_at).t > now
           /\ LoopStep) =>
              /\ r \in mutes'
              /\ MutedRole \in roles[r.user_id] => MutedRole \in roles'[r.user_id]]_vars


\* ------------------------------------------------------------- claims: fourth group, listings, tickets, messages
\* C38: a listing's sidecar claimant, once set to a concrete member, is never
\* reset to 0: no step, in particular no close edit, takes the footer from a
\* claimant other than 0 back to claimant 0, also when the close read the
\* listing before a claim's edit was applied and writes after it.
C38_ClaimantNeverReset ==
    [][(listing.exists /\ ListingMeta.claimed_by # 0) =>
           parse_market_meta(listing'.emb.footer).claimed_by # 0]_vars


\* C39: ticket close only ever deletes a channel that is a ticket entity, a
\* channel whose topic encodes an owner: the channel a close handler deletes
\* has a user_id field with a value in its topic, so /ticket close in a text
\* channel without ticket sidecar deletes nothing, whoever the actor is.
C39_CloseDeletesTicketsOnly ==
    [][\A p \in Handlers, i \in 1..MaxChannels :
          (/\ tcmd[p].pc = "t_delete" /\ i <= Len(channels)
           /\ channels[i].id = tcmd[p].ch
           /\ \A j \in 1..Len(channels') : channels'[j].id # tcmd[p].ch) =>
              DictGet(parse_topic(channels[i].topic), <<"u", "s", "e", "r", "_", "i", "d">>)
                  \notin {NULL, <<>>}]_vars


\* C40: while a member holds the sentinel, every message they post is deleted
\* and not passed to command processing, unless it was posted in the
\* configured unmute channel or in a ticket-area channel whose decoded topic
\* owner is that member; a message of a member without the sentinel is never
\* deleted by the check.
C40_MutedMessagesDeleted ==
    (message.pc = "done" /\ ~message.bot) =>
        LET ch == message.channel
            exempt == \/ env.UNMUTE_CHANNEL_ID /\ ch.area = "unmute"
                      \/ /\ ch.area = "ticket"
                         /\ DictGet(parse_topic(ch.topic), <<"u", "s", "e", "r", "_", "i", "d">>)
                                = Str(message.author)
        IN  /\ (MutedRole \in roles[message.author] /\ ~exempt) =>
                   message.deleted /\ ~message.processed
            /\ MutedRole \notin roles[message.author] => ~message.deleted

=============================================================================
